---- MODULE Spec2Model ----
(***************************************************************************)
(* Verification model of llm_social_simulation/simulation/gameworld.py:    *)
(* the networked Prisoner's Dilemma world (Gameworld) and the common-pool  *)
(* resource world (OpenResourcesGameWorld).                                *)
(*                                                                         *)
(* Python floats are modelled as a reduced-width IEEE-754 style binary     *)
(* format: a value is an integer count of units of 2^-FracBits that has at *)
(* most Prec significant bits; every arithmetic result is rounded to the   *)
(* nearest such value, ties to even.  (The code runs with Prec = 53.)      *)
(***************************************************************************)
EXTENDS Integers, Sequences, FiniteSets, TLC

\* ------------------------------------------------------------------------
\* Bounds of the model
\* ------------------------------------------------------------------------
\* significant bits of a float
Prec == 5
\* a float is a multiple of 2^-FracBits
FracBits == 7
\* apply_actions calls explored per Open Resources world
MaxSteps == 2
\* settlement calls explored per Prisoner's Dilemma world
MaxRounds == 2
\* longest list of values handed to an analytics function
MaxLen == 3
\* most mutations a caller makes to the objects it holds
MaxMutations == 1
\* most generate calls made on the clients of one cache
MaxCalls == 3
\* largest max_attempts of a RetryPolicy
MaxAttempts == 3
\* most threads that share one TokenBucketRateLimiter
MaxThreads == 2
\* most acquire calls one thread makes
MaxAcquires == 2
\* largest burst of a TokenBucketRateLimiter
MaxBurst == 2

\* ------------------------------------------------------------------------
\* Float arithmetic
\* ------------------------------------------------------------------------
Pow2(n) == 2 ^ n

\* the float 1.0
One == Pow2(FracBits)

\* the float k (a small whole number)
F(k) == k * One

\* the float 0.5
Half == One \div 2

RECURSIVE Ulp(_, _)
\* spacing of the floats around num/den units, for lim = den * 2^Prec: the
\* smallest 2^e (e >= 0) with num < lim * 2^e   (num >= 0, lim > 0)
Ulp(num, lim) == IF num < lim THEN 1 ELSE 2 * Ulp(num, 2 * lim)

\* num/d rounded to the nearest integer, ties to even   (num >= 0, d > 0)
RoundHalfEven(num, d) ==
    LET q == num \div d
        r == num % d
    IN  IF 2 * r > d \/ (2 * r = d /\ q % 2 = 1) THEN q + 1 ELSE q

\* the float nearest to the rational num/den units   (den > 0)
RN(num, den) ==
    LET a == IF num < 0 THEN -num ELSE num
        s == Ulp(a, den * Pow2(Prec))
        m == RoundHalfEven(a, den * s) * s
    IN  IF num < 0 THEN -m ELSE m

FAdd(a, b) == RN(a + b, 1)
FSub(a, b) == RN(a - b, 1)
FMul(a, b) == RN(a * b, One)
\* b # 0
FDiv(a, b) == IF b < 0 THEN RN(-(a * One), -b) ELSE RN(a * One, b)

FMin(a, b) == IF b < a THEN b ELSE a
FMax(a, b) == IF b > a THEN b ELSE a

RECURSIVE SumSeq(_, _)
\* sum(d.values()) for a dict d whose keys were inserted in the order ids:
\* a left fold of float additions starting from the integer 0
SumSeq(d, ids) ==
    IF ids = << >> THEN 0
    ELSE LET n == Len(ids)
         IN  FAdd(SumSeq(d, SubSeq(ids, 1, n - 1)), d[ids[n]])

\* ------------------------------------------------------------------------
\* Open Resources world: configuration and inputs
\* ------------------------------------------------------------------------
\* OpenResourcesConfig.agent_ids of the explored worlds
agent_ids == << 0, 1 >>

\* resource_cap is None (<< >>) or a float (<< cap >>)
None == << >>

BaseConfig ==
    [ agent_ids |-> agent_ids,
      initial_resource |-> F(7),
      initial_pool |-> F(1),
      initial_wealth |-> F(4),
      max_harvest_per_step |-> F(100),
      resource_cap |-> None,
      regen_rate |-> 0,
      regen_mode |-> "logistic",
      governance_reward_rate |-> 0,
      reward_mode |-> "proportional",
      collapse_threshold |-> 0 ]

\* configurations that vary the resource dynamics
ResourceConfigs ==
    { [ BaseConfig EXCEPT !.initial_resource = rc[1], !.resource_cap = rc[2],
                             !.regen_rate = rate, !.regen_mode = mode ] :
        rc \in { << 0, None >>, << F(1), None >>, << F(7), None >>,
                 << F(7), << F(4) >> >> },
        rate \in { 0, Half, -One, F(3) },
        mode \in { "logistic", "linear" } }
    \cup { [ BaseConfig EXCEPT !.regen_mode = "exponential" ],
           [ BaseConfig EXCEPT !.initial_resource = 0, !.resource_cap = << 0 >> ],
           [ BaseConfig EXCEPT !.initial_resource = 0, !.resource_cap = << 0 >>,
                              !.regen_mode = "linear", !.regen_rate = Half ],
           [ BaseConfig EXCEPT !.regen_mode = "linear", !.regen_rate = 1 ],
           [ BaseConfig EXCEPT !.max_harvest_per_step = F(6) ],
           [ BaseConfig EXCEPT !.max_harvest_per_step = F(6), !.initial_wealth = 0,
                                  !.regen_mode = "linear", !.regen_rate = Half ] }

\* configurations that vary the governance pool
GovernanceConfigs ==
    { [ BaseConfig EXCEPT !.initial_resource = F(1), !.initial_pool = pool,
                             !.governance_reward_rate = rate, !.reward_mode = mode ] :
        pool \in { 0, F(1) },
        rate \in { 0, Half, F(2) },
        mode \in { "proportional", "equal", "lottery" } }
    \cup { [ BaseConfig EXCEPT !.initial_resource = F(1), !.initial_wealth = 0,
                               !.governance_reward_rate = F(2), !.reward_mode = mode ] :
             mode \in { "proportional", "equal" } }

Configs == ResourceConfigs \cup GovernanceConfigs

\* what one agent may request in a step: negative, in-range and oversized
\* harvest and contribute values
ActionChoices ==
    { [ harvest |-> -One,  contribute |-> -One ],
      [ harvest |-> 0,     contribute |-> 0 ],
      [ harvest |-> 0,     contribute |-> F(4) ],
      [ harvest |-> F(1),  contribute |-> F(1) ],
      [ harvest |-> F(5),  contribute |-> F(4) ],
      [ harvest |-> F(7),  contribute |-> F(4) ] }

Range(s) == { s[k] : k \in 1..Len(s) }

\* a dict comprehension: the mapping is built once, when it is defined
Dict(f) == f @@ << >>

\* the mappings handed to apply_actions: one action per agent, or a mapping
\* that lacks one agent
ActionInputs ==
    [ Range(agent_ids) -> ActionChoices ]
    \cup { [ b \in Range(agent_ids) \ { a } |-> [ harvest |-> F(1), contribute |-> 0 ] ] :
             a \in Range(agent_ids) }


\* ------------------------------------------------------------------------
\* Prisoner's Dilemma world: graphs and inputs
\* ------------------------------------------------------------------------
\* agent ids of the explored graphs
Nodes == { 0, 1, 2 }

\* PayoffMatrix with its default payoffs
PayoffMatrix == [ T |-> 5, R |-> 3, P |-> 1, S |-> 0 ]

\* adjacency lists (as sets: no neighbour is listed twice, no agent lists
\* itself); in the fourth and the sixth an agent lists a neighbour that does
\* not list it back
Graphs ==
    { (0 :> { 1 }) @@ (1 :> { 0, 2 }) @@ (2 :> { 1 }),
      (0 :> { 1, 2 }) @@ (1 :> { 0 }) @@ (2 :> { 0 }),
      (0 :> { 2 }) @@ (1 :> { }) @@ (2 :> { 0 }),
      (0 :> { 1 }) @@ (1 :> { }) @@ (2 :> { }),
      (0 :> { }) @@ (1 :> { 2 }) @@ (2 :> { 1 }),
      (0 :> { }) @@ (1 :> { 0 }) @@ (2 :> { }) }

Symmetric(g) == \A i \in DOMAIN g : \A j \in g[i] : i \in g[j]

\* what an agent may put in its sub-mapping: the two actions and a value
\* outside the alphabet
ActionValues == { "C", "D", "X" }

\* the keys of agent i's sub-mapping that settlement can read
Readable(g, i) == g[i] \cup { j \in DOMAIN g : i \in g[j] }

\* one agent's entry of the joint action: absent, or a sub-mapping
SubMappings(g, i) ==
    { [ present |-> FALSE, map |-> << >> ] }
    \cup { [ present |-> TRUE, map |-> m ] :
             m \in UNION { [ K -> ActionValues ] : K \in SUBSET Readable(g, i) } }

\* the ways in which a joint action breaks the contract of apply_actions: an
\* agent of the graph is missing, a sub-mapping lacks a neighbour, a value
\* directed at a neighbour is outside the alphabet
Faults(g, actions) ==
    { f \in { "agent", "neighbour", "value" } :
        \/ f = "agent" /\ \E i \in DOMAIN g : i \notin DOMAIN actions
        \/ f = "neighbour" /\ \E i \in DOMAIN g \cap DOMAIN actions :
                                  \E j \in g[i] : j \notin DOMAIN actions[i]
        \/ f = "value" /\ \E i \in DOMAIN g \cap DOMAIN actions :
                              \E j \in g[i] \cap DOMAIN actions[i] :
                                  actions[i][j] \notin { "C", "D" } }

\* the joint actions handed to Gameworld.apply_actions
JointActions(g) ==
    { LET e == (0 :> e0) @@ (1 :> e1) @@ (2 :> e2)
      IN  [ i \in { k \in Nodes : e[k].present } |-> e[i].map ] :
        e0 \in SubMappings(g, 0), e1 \in SubMappings(g, 1), e2 \in SubMappings(g, 2) }

\* ------------------------------------------------------------------------
\* State
\* ------------------------------------------------------------------------
VARIABLES
    config,     \* OpenResourcesGameWorld.config
    state,      \* OpenResourcesGameWorld.state: [t, R, P, wealth]
    or_actions, \* argument of the most recent OpenResourcesGameWorld.apply_actions
    or_tick,    \* OpenResourcesTick returned by the most recent successful call
    or_outcome, \* how the most recent call ended: "none", "ok" or the error raised
    or_calls,   \* number of apply_actions calls made on the world so far
    or_obs,     \* what the most recent OpenResourcesGameWorld.get_observation gave
    graph,        \* Gameworld.graph
    wealth,       \* Gameworld.wealth
    last_actions, \* Gameworld.last_actions
    t,            \* Gameworld.t
    pd_tick,      \* TickResult returned by the most recent successful call
    pd_outcome,   \* how the most recent Gameworld call ended
    pd_faults,    \* what was wrong with the argument of the most recent call
    pd_calls,     \* number of Gameworld.apply_actions calls made so far
    pd_obs,       \* what the most recent Gameworld.get_observation gave
    payoff_call,   \* a call of PayoffMatrix.payoff: its arguments and its result
    gini_call,     \* a call of gini: its argument and its result
    or_history,    \* the ticks an Open Resources run has collected so far
    collapse_call, \* a call of collapse_time: its argument and its result
    engine,        \* SimulationEngine and the progress of its run(n)
    coop_call,     \* a call of cooperation_rate_per_round: argument and result
    alias,         \* a Gameworld whose dicts are objects on a heap, and its caller
    runs,          \* two Open Resources runs of one config: greedy and cooperative agents
    llm,           \* a DiskCache, the clients around it and the calls made so far
    retry,         \* a ResilientClient.generate call in progress
    bucket         \* a TokenBucketRateLimiter and the threads calling acquire

or_vars == << config, state, or_actions, or_tick, or_outcome, or_calls, or_obs >>

pd_vars == << graph, wealth, last_actions, t, pd_tick, pd_outcome, pd_faults, pd_calls,
             pd_obs >>

\* the variables of the analytics calls, the engine and the heap model
ext_vars == << payoff_call, gini_call, or_history, collapse_call, engine, coop_call, alias >>

\* the two compared runs, the cache with its clients, the retrying client
\* and the rate limiter with its threads
more_vars == << runs, llm, retry, bucket >>

vars == << or_vars, pd_vars, ext_vars, more_vars >>

\* the value of a variable that a specification does not use
Unused == [ outcome |-> "unused" ]

\* none of the analytics calls, the engine or the heap model is in use
ExtUnused ==
    /\ payoff_call = Unused
    /\ gini_call = Unused
    /\ or_history = << >>
    /\ collapse_call = Unused
    /\ engine = Unused
    /\ coop_call = Unused
    /\ alias = Unused

\* the variables of the runs and of the model clients while they are not used
MoreUnused == runs = Unused /\ llm = Unused /\ retry = Unused /\ bucket = Unused

\* ------------------------------------------------------------------------
\* OpenResourcesGameWorld
\* ------------------------------------------------------------------------
\* the clamp without its lower bound
ClampAbove(requested, upper) == FMin(requested, upper)

\* max(0.0, requested): no upper limit
ClampBelow(requested, upper) == FMax(0, requested)

\* min(max(0.0, requested), upper)
Clamp(requested, upper) == FMin(FMax(0, requested), upper)

\* capacity used by regeneration
Cap(cfg) ==
    IF cfg.resource_cap # None THEN cfg.resource_cap[1]
    ELSE FMax(cfg.initial_resource, One)

\* a constructor that starts the tick index at 1
InitialStateAtTickOne(cfg) ==
    [ t |-> 1,
      R |-> cfg.initial_resource,
      P |-> cfg.initial_pool,
      wealth |-> [ a \in Range(cfg.agent_ids) |-> cfg.initial_wealth ] ]

\* state built by OpenResourcesGameWorld.__init__
InitialState(cfg) ==
    [ t |-> 0,
      R |-> cfg.initial_resource,
      P |-> cfg.initial_pool,
      wealth |-> [ a \in Range(cfg.agent_ids) |-> cfg.initial_wealth ] ]

\* the tick slot before any call has returned
NoTick == [ t |-> -1 ]

\* a failure that leaves the tick index advanced
RaiseAfterAdvance(st, error) ==
    [ outcome |-> error, state |-> [ st EXCEPT !.t = @ + 1 ], tick |-> NoTick ]

\* an exception leaves apply_actions before the state is assigned
Raise(st, error) == [ outcome |-> error, state |-> st, tick |-> NoTick ]

\* harvest allocation without the branch for a zero total request
AllocationWithoutZeroCase(cfg, r_before, harvest_requested) ==
    LET ids == cfg.agent_ids
        h_req == SumSeq(harvest_requested, ids)
    IN  IF h_req <= r_before
        THEN [ scale |-> One, actual |-> harvest_requested ]
        ELSE LET allocation_scale == FDiv(r_before, h_req)
             IN  [ scale |-> allocation_scale,
                   actual |-> Dict([ a \in Range(ids) |->
                                  FMul(harvest_requested[a], allocation_scale) ]) ]

\* harvest allocation that rations whenever anything is requested
AllocationAlwaysRationed(cfg, r_before, harvest_requested) ==
    LET ids == cfg.agent_ids
        h_req == SumSeq(harvest_requested, ids)
    IN  IF h_req = 0
        THEN [ scale |-> 0, actual |-> Dict([ a \in Range(ids) |-> 0 ]) ]
        ELSE LET allocation_scale == FDiv(r_before, h_req)
             IN  [ scale |-> allocation_scale,
                   actual |-> Dict([ a \in Range(ids) |->
                                  FMul(harvest_requested[a], allocation_scale) ]) ]

\* harvest allocation: scale and actual harvest per agent
Allocation(cfg, r_before, harvest_requested) ==
    LET ids == cfg.agent_ids
        h_req == SumSeq(harvest_requested, ids)
    IN  IF h_req = 0
        THEN [ scale |-> 0, actual |-> Dict([ a \in Range(ids) |-> 0 ]) ]
        ELSE IF h_req <= r_before
        THEN [ scale |-> One, actual |-> harvest_requested ]
        ELSE LET allocation_scale == FDiv(r_before, h_req)
             IN  [ scale |-> allocation_scale,
                   actual |-> Dict([ a \in Range(ids) |->
                                  FMul(harvest_requested[a], allocation_scale) ]) ]

\* governance reward per agent, or the error raised while computing it
Rewards(cfg, p_after_contrib, contribute) ==
    LET ids == cfg.agent_ids
        total_contrib == SumSeq(contribute, ids)
    IN  IF cfg.governance_reward_rate > 0 /\ p_after_contrib > 0 /\ total_contrib > 0
        THEN LET reward_budget ==
                     FMin(p_after_contrib, FMul(cfg.governance_reward_rate, total_contrib))
             IN  IF cfg.reward_mode = "equal"
                 THEN LET eligible_agents == { a \in Range(ids) : contribute[a] > 0 }
                          per_agent_reward ==
                              IF eligible_agents # {}
                              THEN FDiv(reward_budget, F(Cardinality(eligible_agents)))
                              ELSE 0
                      IN  [ error |-> "", budget |-> reward_budget,
                            reward |-> Dict([ a \in Range(ids) |->
                                IF a \in eligible_agents THEN per_agent_reward ELSE 0 ]) ]
                 ELSE IF cfg.reward_mode = "proportional"
                 THEN [ error |-> "", budget |-> reward_budget,
                        reward |-> Dict([ a \in Range(ids) |->
                            FMul(reward_budget, FDiv(contribute[a], total_contrib)) ]) ]
                 ELSE [ error |-> "ValueError", budget |-> reward_budget,
                        reward |-> Dict([ a \in Range(ids) |-> 0 ]) ]
        ELSE [ error |-> "", budget |-> 0, reward |-> Dict([ a \in Range(ids) |-> 0 ]) ]

\* regeneration without the final clamp into [0, cap]
RegenerationUnclamped(cfg, r_mid) ==
    LET cap == Cap(cfg)
    IN  IF cfg.regen_mode = "logistic"
        THEN IF cap = 0
             THEN [ error |-> "ZeroDivisionError", r_after |-> 0 ]
             ELSE [ error |-> "",
                    r_after |-> FAdd(r_mid, FMul(FMul(cfg.regen_rate, r_mid),
                                                 FSub(One, FDiv(r_mid, cap)))) ]
        ELSE IF cfg.regen_mode = "linear"
        THEN [ error |-> "", r_after |-> FAdd(r_mid, FMul(cfg.regen_rate, FSub(cap, r_mid))) ]
        ELSE [ error |-> "ValueError", r_after |-> 0 ]

\* regeneration: the stock after the step, or the error raised
Regeneration(cfg, r_mid) ==
    LET cap == Cap(cfg)
    IN  IF cfg.regen_mode = "logistic"
        THEN IF cap = 0
             THEN [ error |-> "ZeroDivisionError", r_after |-> 0 ]
             ELSE LET regen_delta ==
                          FMul(FMul(cfg.regen_rate, r_mid), FSub(One, FDiv(r_mid, cap)))
                  IN  [ error |-> "", r_after |-> FMin(cap, FMax(0, FAdd(r_mid, regen_delta))) ]
        ELSE IF cfg.regen_mode = "linear"
        THEN LET regen_delta == FMul(cfg.regen_rate, FSub(cap, r_mid))
             IN  [ error |-> "", r_after |-> FMin(cap, FMax(0, FAdd(r_mid, regen_delta))) ]
        ELSE [ error |-> "ValueError", r_after |-> 0 ]

\* OpenResourcesGameWorld.apply_actions: the outcome, the state it leaves and
\* the tick it returns
Settle(cfg, st, actions) ==
    LET ids == cfg.agent_ids
        Agents == Range(ids)
    IN  IF \E a \in Agents : a \notin DOMAIN actions
        THEN Raise(st, "ValueError")
        ELSE
        LET r_before == st.R
            p_before == st.P
            wealth_before == st.wealth
            harvest_requested ==
                Dict([ a \in Agents |-> Clamp(actions[a].harvest, cfg.max_harvest_per_step) ])
            contribute ==
                Dict([ a \in Agents |-> Clamp(actions[a].contribute, wealth_before[a]) ])
            clamped ==
                Dict([ a \in Agents |->
                    [ harvest |-> harvest_requested[a] # actions[a].harvest,
                      contribute |-> contribute[a] # actions[a].contribute ] ])
            wealth_after_contrib ==
                Dict([ a \in Agents |-> FSub(wealth_before[a], contribute[a]) ])
            p_after_contrib == FAdd(p_before, SumSeq(contribute, ids))
            h_req == SumSeq(harvest_requested, ids)
            alloc == Allocation(cfg, r_before, harvest_requested)
            harvest_actual == alloc.actual
            h_act == SumSeq(harvest_actual, ids)
            r_mid == FMax(0, FSub(r_before, h_act))
            wealth_after_harvest ==
                Dict([ a \in Agents |-> FAdd(wealth_after_contrib[a], harvest_actual[a]) ])
            rw == Rewards(cfg, p_after_contrib, contribute)
            reward == rw.reward
            p_after_reward == FSub(p_after_contrib, SumSeq(reward, ids))
            wealth_after_reward ==
                Dict([ a \in Agents |-> FAdd(wealth_after_harvest[a], reward[a]) ])
            regen == Regeneration(cfg, r_mid)
            r_after == regen.r_after
        IN  IF rw.error # "" THEN Raise(st, rw.error)
            ELSE IF regen.error # "" THEN Raise(st, regen.error)
            ELSE [ outcome |-> "ok",
                   state |-> [ t |-> st.t + 1, R |-> r_after, P |-> p_after_reward,
                               wealth |-> wealth_after_reward ],
                   tick |-> [ t |-> st.t,
                              R_before |-> r_before,
                              R_after |-> r_after,
                              P_before |-> p_before,
                              P_after |-> p_after_reward,
                              harvest_requested |-> harvest_requested,
                              harvest_actual |-> harvest_actual,
                              contribute |-> contribute,
                              reward |-> reward,
                              wealth |-> wealth_after_reward,
                              clamped |-> clamped,
                              info |-> [ H_req |-> h_req,
                                         H_act |-> h_act,
                                         allocation_scale |-> alloc.scale,
                                         regen_mode |-> cfg.regen_mode,
                                         R_mid |-> r_mid,
                                         collapsed |-> (r_after <= cfg.collapse_threshold) ] ] ]

\* the observation slot before any get_observation call
NoObservation == [ outcome |-> "none" ]

\* the ids handed to OpenResourcesGameWorld.get_observation: the configured
\* agents and an id outside the configuration
ObservedIds == Range(agent_ids) \cup { 2 }

\* an observation that reports the configured initial wealth
ObservationOfInitialWealth(cfg, st, agent_id) ==
    IF agent_id \notin DOMAIN st.wealth
    THEN [ outcome |-> "ValueError", agent_id |-> agent_id ]
    ELSE [ outcome |-> "ok", agent_id |-> agent_id, self_id |-> agent_id, t |-> st.t,
           R |-> st.R, P |-> st.P, self_wealth |-> cfg.initial_wealth,
           known_agents |-> cfg.agent_ids ]

\* OpenResourcesGameWorld.get_observation: the observation, or the error
Observation(cfg, st, agent_id) ==
    IF agent_id \notin DOMAIN st.wealth
    THEN [ outcome |-> "ValueError", agent_id |-> agent_id ]
    ELSE [ outcome |-> "ok", agent_id |-> agent_id, self_id |-> agent_id, t |-> st.t,
           R |-> st.R, P |-> st.P, self_wealth |-> st.wealth[agent_id],
           known_agents |-> cfg.agent_ids ]

\* ------------------------------------------------------------------------
\* Gameworld
\* ------------------------------------------------------------------------
\* payoff with the two mixed rows exchanged
PayoffMixedUp(a_i, a_j) ==
    IF a_i = "C" /\ a_j = "C" THEN << PayoffMatrix.R, PayoffMatrix.R >>
    ELSE IF a_i = "D" /\ a_j = "D" THEN << PayoffMatrix.P, PayoffMatrix.P >>
    ELSE IF a_i = "D" /\ a_j = "C" THEN << PayoffMatrix.S, PayoffMatrix.T >>
    ELSE IF a_i = "C" /\ a_j = "D" THEN << PayoffMatrix.T, PayoffMatrix.S >>
    ELSE << >>

\* PayoffMatrix.payoff: the pair of payoffs, or << >> when it raises
Payoff(a_i, a_j) ==
    IF a_i = "C" /\ a_j = "C" THEN << PayoffMatrix.R, PayoffMatrix.R >>
    ELSE IF a_i = "D" /\ a_j = "D" THEN << PayoffMatrix.P, PayoffMatrix.P >>
    ELSE IF a_i = "D" /\ a_j = "C" THEN << PayoffMatrix.T, PayoffMatrix.S >>
    ELSE IF a_i = "C" /\ a_j = "D" THEN << PayoffMatrix.S, PayoffMatrix.T >>
    ELSE << >>

\* the validation loop of apply_actions accepts the joint action
Valid(g, actions) ==
    \A i \in DOMAIN g :
        /\ i \in DOMAIN actions
        /\ \A j \in g[i] : j \in DOMAIN actions[i] /\ actions[i][j] \in { "C", "D" }

\* the payoff loop without its i < j test: every listed (i, j) is evaluated
AllListedEdges(g) == { e \in (DOMAIN g) \X (DOMAIN g) : e[2] \in g[e[1]] }

\* the (i, j) for which the payoff loop evaluates an edge: j a neighbour of i, i < j
CountedEdges(g) == { e \in (DOMAIN g) \X (DOMAIN g) : e[2] \in g[e[1]] /\ e[1] < e[2] }

\* the error the payoff loop raises at edge e ("" when it raises none): the
\* reverse action is missing (KeyError) or outside the alphabet (ValueError)
EdgeError(e, actions) ==
    IF e[1] \notin DOMAIN actions[e[2]] THEN "KeyError"
    ELSE IF Payoff(actions[e[1]][e[2]], actions[e[2]][e[1]]) = << >> THEN "ValueError"
    ELSE ""

\* the error that ends the payoff loop: that of the first edge, in iteration
\* order, at which it raises
PayoffLoopError(g, actions) ==
    LET bad == { e \in CountedEdges(g) : EdgeError(e, actions) # "" }
    IN  IF bad = {} THEN ""
        ELSE EdgeError(CHOOSE e \in bad : \A x \in bad :
                           e[1] < x[1] \/ (e[1] = x[1] /\ e[2] <= x[2]), actions)

RECURSIVE Credit(_, _, _)
\* delta after the payoff loop has gone through the edges es, starting from delta
Credit(delta, es, actions) ==
    IF es = {} THEN delta
    ELSE LET e == CHOOSE x \in es : TRUE
             p == Payoff(actions[e[1]][e[2]], actions[e[2]][e[1]])
             d1 == [ delta EXCEPT ![e[1]] = @ + p[1] ]
             d2 == [ d1 EXCEPT ![e[2]] = @ + p[2] ]
         IN  Credit(d2, es \ { e }, actions)

NoRound == [ round |-> -1 ]

\* apply_actions with the round counter advanced before validation
ApplyActionsCountingFirst(g, w, last, round, actions) ==
    IF ~Valid(g, actions) \/ PayoffLoopError(g, actions) # ""
    THEN [ outcome |-> "ValueError", wealth |-> w, last_actions |-> last, t |-> round + 1,
           tick |-> NoRound ]
    ELSE LET delta == Credit([ i \in DOMAIN g |-> 0 ], CountedEdges(g), actions)
             new_wealth == Dict([ i \in DOMAIN g |-> w[i] + delta[i] ])
             new_last == Dict([ e \in { x \in (DOMAIN g) \X (DOMAIN g) : x[2] \in g[x[1]] } |->
                                 actions[e[1]][e[2]] ])
         IN  [ outcome |-> "ok", wealth |-> new_wealth, last_actions |-> new_last,
               t |-> round + 1,
               tick |-> [ round |-> round, actions |-> actions, delta_payoff |-> delta,
                          wealth |-> new_wealth ] ]

\* apply_actions that sets each wealth to the payoff of the round
ApplyActionsResettingWealth(g, w, last, round, actions) ==
    IF ~Valid(g, actions)
    THEN [ outcome |-> "ValueError", wealth |-> w, last_actions |-> last, t |-> round,
           tick |-> NoRound ]
    ELSE IF PayoffLoopError(g, actions) # ""
    THEN [ outcome |-> PayoffLoopError(g, actions), wealth |-> w, last_actions |-> last, t |-> round,
           tick |-> NoRound ]
    ELSE LET delta == Credit([ i \in DOMAIN g |-> 0 ], CountedEdges(g), actions)
             new_wealth == delta
             new_last == Dict([ e \in { x \in (DOMAIN g) \X (DOMAIN g) : x[2] \in g[x[1]] } |->
                                 actions[e[1]][e[2]] ])
         IN  [ outcome |-> "ok", wealth |-> new_wealth, last_actions |-> new_last,
               t |-> round + 1,
               tick |-> [ round |-> round, actions |-> actions, delta_payoff |-> delta,
                          wealth |-> new_wealth ] ]

\* Gameworld.apply_actions: the outcome, the fields it leaves and the tick
ApplyActions(g, w, last, round, actions) ==
    IF ~Valid(g, actions)
    THEN [ outcome |-> "ValueError", wealth |-> w, last_actions |-> last, t |-> round,
           tick |-> NoRound ]
    ELSE IF PayoffLoopError(g, actions) # ""
    THEN [ outcome |-> PayoffLoopError(g, actions), wealth |-> w, last_actions |-> last, t |-> round,
           tick |-> NoRound ]
    ELSE LET delta == Credit([ i \in DOMAIN g |-> 0 ], CountedEdges(g), actions)
             new_wealth == Dict([ i \in DOMAIN g |-> w[i] + delta[i] ])
             new_last == Dict([ e \in { x \in (DOMAIN g) \X (DOMAIN g) : x[2] \in g[x[1]] } |->
                                 actions[e[1]][e[2]] ])
         IN  [ outcome |-> "ok", wealth |-> new_wealth, last_actions |-> new_last,
               t |-> round + 1,
               tick |-> [ round |-> round, actions |-> actions, delta_payoff |-> delta,
                          wealth |-> new_wealth ] ]

\* the ids handed to Gameworld.get_observation: the agents of the graph and
\* an id outside it
Observers == Nodes \cup { 3 }

\* Gameworld.get_observation: the observation, or the KeyError of graph[i]
GetObservation(g, w, last, round, i) ==
    IF i \notin DOMAIN g
    THEN [ outcome |-> "KeyError", self_id |-> i ]
    ELSE [ outcome |-> "ok",
           self_id |-> i,
           neighbors |-> g[i],
           last_actions_from_neighbors |->
               Dict([ j \in g[i] |->
                   IF << j, i >> \in DOMAIN last THEN last[<< j, i >>] ELSE "C" ]),
           self_wealth |-> w[i],
           round |-> round ]

\* a constructor that starts the round counter at 1
PDConstructedAtRoundOne(g) ==
    /\ graph = g
    /\ wealth = [ i \in DOMAIN graph |-> 0 ]
    /\ last_actions = << >>
    /\ t = 1
    /\ pd_tick = NoRound
    /\ pd_outcome = "none"
    /\ pd_faults = {}
    /\ pd_calls = 0
    /\ pd_obs = NoObservation

\* the Gameworld fields after __init__ on graph g
PDConstructed(g) ==
    /\ graph = g
    /\ wealth = [ i \in DOMAIN graph |-> 0 ]
    /\ last_actions = << >>
    /\ t = 0
    /\ pd_tick = NoRound
    /\ pd_outcome = "none"
    /\ pd_faults = {}
    /\ pd_calls = 0
    /\ pd_obs = NoObservation

\* one call of Gameworld.apply_actions
GameworldApplyActions ==
    /\ pd_calls < MaxRounds
    /\ pd_calls' = pd_calls + 1
    /\ \E actions \in JointActions(graph) :
         \E res \in { ApplyActions(graph, wealth, last_actions, t, actions) } :
             /\ pd_outcome' = res.outcome
             /\ pd_faults' = Faults(graph, actions)
             /\ wealth' = res.wealth
             /\ last_actions' = res.last_actions
             /\ t' = res.t
             /\ pd_tick' = IF res.outcome = "ok" THEN res.tick ELSE pd_tick
    /\ UNCHANGED << graph, pd_obs >>
    /\ UNCHANGED << or_vars, ext_vars >>
    /\ UNCHANGED more_vars

\* one call of Gameworld.get_observation
GameworldGetObservation ==
    /\ \E i \in Observers : pd_obs' = GetObservation(graph, wealth, last_actions, t, i)
    /\ UNCHANGED << graph, wealth, last_actions, t, pd_tick, pd_outcome, pd_faults, pd_calls >>
    /\ UNCHANGED << or_vars, ext_vars >>
    /\ UNCHANGED more_vars

\* the OpenResourcesGameWorld fields after __init__ on configuration cfg
ORConstructed(cfg) ==
    /\ config = cfg
    /\ state = InitialState(config)
    /\ or_actions = << >>
    /\ or_tick = NoTick
    /\ or_outcome = "none"
    /\ or_calls = 0
    /\ or_obs = NoObservation

\* one call of OpenResourcesGameWorld.apply_actions
OpenResourcesApplyActions ==
    /\ or_calls < MaxSteps
    /\ or_calls' = or_calls + 1
    /\ \E actions \in ActionInputs :
         \E res \in { Settle(config, state, actions) } :
             /\ or_actions' = actions
             /\ or_outcome' = res.outcome
             /\ state' = res.state
             /\ or_tick' = IF res.outcome = "ok" THEN res.tick ELSE or_tick
    /\ UNCHANGED << config, or_obs >>
    /\ UNCHANGED << pd_vars, ext_vars >>
    /\ UNCHANGED more_vars

\* one call of OpenResourcesGameWorld.get_observation
OpenResourcesGetObservation ==
    /\ \E agent_id \in ObservedIds : or_obs' = Observation(config, state, agent_id)
    /\ UNCHANGED << config, state, or_actions, or_tick, or_outcome, or_calls >>
    /\ UNCHANGED << pd_vars, ext_vars >>
    /\ UNCHANGED more_vars

\* an Open Resources world built from any of the explored configurations
ORInit ==
    /\ \E cfg \in Configs : ORConstructed(cfg)
    /\ PDConstructed(CHOOSE g \in Graphs : TRUE)
    /\ ExtUnused
    /\ MoreUnused

ORNext == OpenResourcesApplyActions

SpecOR == ORInit /\ [][ORNext]_vars

\* the configurations of the worlds that are also observed
ObservedConfigs ==
    { BaseConfig,
      [ BaseConfig EXCEPT !.regen_mode = "linear", !.regen_rate = Half ],
      [ BaseConfig EXCEPT !.initial_resource = F(1), !.governance_reward_rate = F(2) ],
      [ BaseConfig EXCEPT !.regen_mode = "exponential" ] }

\* an Open Resources world that is stepped and observed in any order
ORObsInit ==
    /\ \E cfg \in ObservedConfigs : ORConstructed(cfg)
    /\ PDConstructed(CHOOSE g \in Graphs : TRUE)
    /\ ExtUnused
    /\ MoreUnused

ORObsNext == OpenResourcesApplyActions \/ OpenResourcesGetObservation

SpecORObs == ORObsInit /\ [][ORObsNext]_vars

\* a Prisoner's Dilemma world built on any of the explored graphs
PDInit ==
    /\ \E g \in Graphs : PDConstructed(g)
    /\ ORConstructed(BaseConfig)
    /\ ExtUnused
    /\ MoreUnused

PDNext == GameworldApplyActions \/ GameworldGetObservation

SpecPD == PDInit /\ [][PDNext]_vars

\* ------------------------------------------------------------------------
\* PayoffMatrix.payoff as a function of its arguments
\* ------------------------------------------------------------------------
\* the values handed to payoff: the two actions and strings outside the alphabet
PayoffArguments == { "C", "D", "X", "c", "d", "", "CD", "DC" }

\* a caller about to evaluate payoff on a pair of values
PayoffInit ==
    /\ \E a_i \in PayoffArguments, a_j \in PayoffArguments :
         payoff_call = [ outcome |-> "none", a_i |-> a_i, a_j |-> a_j ]
    /\ ORConstructed(BaseConfig)
    /\ PDConstructed(CHOOSE g \in Graphs : TRUE)
    /\ gini_call = Unused
    /\ or_history = << >>
    /\ collapse_call = Unused
    /\ engine = Unused
    /\ coop_call = Unused
    /\ alias = Unused
    /\ MoreUnused

\* the call of PayoffMatrix.payoff
PayoffMatrixPayoff ==
    /\ payoff_call.outcome = "none"
    /\ \E res \in { Payoff(payoff_call.a_i, payoff_call.a_j) } :
         payoff_call' = [ outcome |-> IF res = << >> THEN "ValueError" ELSE "ok",
                          a_i |-> payoff_call.a_i,
                          a_j |-> payoff_call.a_j,
                          result |-> res ]
    /\ UNCHANGED << or_vars, pd_vars >>
    /\ UNCHANGED << gini_call, or_history, collapse_call, engine, coop_call, alias >>
    /\ UNCHANGED more_vars

PayoffNext == PayoffMatrixPayoff

SpecPayoff == PayoffInit /\ [][PayoffNext]_vars

\* ------------------------------------------------------------------------
\* analytics.gini
\* ------------------------------------------------------------------------
\* the values of the lists handed to gini: 0.0, about 0.1, 1.0 and 3.0
GiniValues == { 0, 13, F(1), F(3) }

GiniInputs == UNION { [ 1..k -> GiniValues ] : k \in 0..MaxLen }

RECURSIVE Insert(_, _)
\* the sorted list xs with x inserted
Insert(x, xs) ==
    IF xs = << >> THEN << x >>
    ELSE IF x <= Head(xs) THEN << x >> \o xs
    ELSE << Head(xs) >> \o Insert(x, Tail(xs))

RECURSIVE Sorted(_)
\* sorted(xs)
Sorted(xs) == IF xs = << >> THEN << >> ELSE Insert(Head(xs), Sorted(Tail(xs)))

RECURSIVE Total(_)
\* sum(xs): a left fold of float additions
Total(xs) ==
    IF xs = << >> THEN 0
    ELSE FAdd(Total(SubSeq(xs, 1, Len(xs) - 1)), xs[Len(xs)])

RECURSIVE WeightedSum(_)
\* the loop weighted_sum += i * x over the sorted values, i counting from 1
WeightedSum(xs) ==
    IF xs = << >> THEN 0
    ELSE FAdd(WeightedSum(SubSeq(xs, 1, Len(xs) - 1)), FMul(F(Len(xs)), xs[Len(xs)]))

\* analytics.gini
Gini(values) ==
    IF values = << >> THEN 0
    ELSE LET n == Len(values)
             total == Total(values)
         IN  IF total = 0 THEN 0
             ELSE LET g == FSub(FDiv(FMul(F(2), WeightedSum(Sorted(values))),
                                     FMul(F(n), total)),
                                FDiv(F(n + 1), F(n)))
                  IN  FMax(0, FMin(One, g))

\* a caller about to evaluate gini on a list of values
GiniInit ==
    /\ \E values \in GiniInputs : gini_call = [ outcome |-> "none", values |-> values ]
    /\ ORConstructed(BaseConfig)
    /\ PDConstructed(CHOOSE g \in Graphs : TRUE)
    /\ payoff_call = Unused
    /\ or_history = << >>
    /\ collapse_call = Unused
    /\ engine = Unused
    /\ coop_call = Unused
    /\ alias = Unused
    /\ MoreUnused

\* the call of gini
GiniCall ==
    /\ gini_call.outcome = "none"
    /\ gini_call' = [ outcome |-> "ok", values |-> gini_call.values,
                      result |-> Gini(gini_call.values) ]
    /\ UNCHANGED << or_vars, pd_vars >>
    /\ UNCHANGED << payoff_call, or_history, collapse_call, engine, coop_call, alias >>
    /\ UNCHANGED more_vars

GiniNext == GiniCall

SpecGini == GiniInit /\ [][GiniNext]_vars

\* ------------------------------------------------------------------------
\* An Open Resources run whose ticks are collected, and analytics.collapse_time
\* ------------------------------------------------------------------------
\* configurations of the runs: collapse thresholds at and above zero, with
\* and without regeneration
RunConfigs ==
    { [ BaseConfig EXCEPT !.collapse_threshold = threshold, !.regen_rate = rate,
                             !.regen_mode = "linear" ] :
        threshold \in { 0, F(1), F(4) }, rate \in { 0, Half } }

\* the joint actions of the runs: each agent requests nothing, a little or
\* the whole stock
RunInputs ==
    [ Range(agent_ids) -> { [ harvest |-> h, contribute |-> 0 ] : h \in { 0, F(1), F(7) } } ]

RECURSIVE CollapseTimeLast(_)
\* collapse_time returning the t of the last flagged tick
CollapseTimeLast(ticks) ==
    IF ticks = << >> THEN None
    ELSE IF ticks[Len(ticks)].info.collapsed THEN << ticks[Len(ticks)].t >>
    ELSE CollapseTimeLast(SubSeq(ticks, 1, Len(ticks) - 1))

RECURSIVE CollapseTime(_)
\* analytics.collapse_time: << t >> of the first flagged tick, or None
CollapseTime(ticks) ==
    IF ticks = << >> THEN None
    ELSE IF Head(ticks).info.collapsed THEN << Head(ticks).t >>
    ELSE CollapseTime(Tail(ticks))

\* a world at the start of a run
RunInit ==
    /\ \E cfg \in RunConfigs : ORConstructed(cfg)
    /\ PDConstructed(CHOOSE g \in Graphs : TRUE)
    /\ or_history = << >>
    /\ collapse_call = [ outcome |-> "none" ]
    /\ payoff_call = Unused
    /\ gini_call = Unused
    /\ engine = Unused
    /\ coop_call = Unused
    /\ alias = Unused
    /\ MoreUnused

\* one apply_actions of the run; the tick it returns is added to the ticks
\* of the run
RunRound ==
    /\ or_calls < MaxSteps
    /\ or_calls' = or_calls + 1
    /\ \E actions \in RunInputs :
         \E res \in { Settle(config, state, actions) } :
             /\ or_actions' = actions
             /\ or_outcome' = res.outcome
             /\ state' = res.state
             /\ or_tick' = IF res.outcome = "ok" THEN res.tick ELSE or_tick
             /\ or_history' = IF res.outcome = "ok" THEN Append(or_history, res.tick)
                              ELSE or_history
    /\ UNCHANGED << config, or_obs >>
    /\ UNCHANGED pd_vars
    /\ UNCHANGED << payoff_call, gini_call, collapse_call, engine, coop_call, alias >>
    /\ UNCHANGED more_vars

\* collapse_time called on the ticks collected so far, or on a slice of them
CollapseTimeCall ==
    /\ \E i \in 1..(Len(or_history) + 1), j \in 0..Len(or_history) :
         \E ticks \in { SubSeq(or_history, i, j) } :
             collapse_call' = [ outcome |-> "ok", ticks |-> ticks,
                                result |-> CollapseTime(ticks) ]
    /\ UNCHANGED << or_vars, pd_vars >>
    /\ UNCHANGED << payoff_call, gini_call, or_history, engine, coop_call, alias >>
    /\ UNCHANGED more_vars

RunNext == RunRound \/ CollapseTimeCall

SpecORRun == RunInit /\ [][RunNext]_vars

\* ------------------------------------------------------------------------
\* SimulationEngine driving a Gameworld
\* ------------------------------------------------------------------------
\* the graphs of the engine's worlds: a path, a graph without edges, and a
\* graph in which 0 lists 1 but 1 does not list 0 (its settlement raises)
EngineGraphs ==
    { (0 :> { 1 }) @@ (1 :> { 0, 2 }) @@ (2 :> { 1 }),
      (0 :> { }) @@ (1 :> { }) @@ (2 :> { }),
      (0 :> { 1 }) @@ (1 :> { }) @@ (2 :> { }) }

\* the agent lists handed to the engine, by agent_id: two orders of the
\* agents of the graph, and a list with an agent the world does not know
AgentLists == { << 0, 1, 2 >>, << 2, 0, 1 >>, << 0, 1, 3 >> }

\* the decision policies of the agents
Policies == { "AlwaysC", "AlwaysD", "TitForTat", "RaisesInRoundOne", "Invalid" }

\* agent.decide(obs): the action mapping returned, or the error raised
Decide(policy, obs) ==
    IF policy = "AlwaysC"
    THEN [ outcome |-> "ok", action |-> Dict([ j \in obs.neighbors |-> "C" ]) ]
    ELSE IF policy = "AlwaysD"
    THEN [ outcome |-> "ok", action |-> Dict([ j \in obs.neighbors |-> "D" ]) ]
    ELSE IF policy = "TitForTat"
    THEN [ outcome |-> "ok",
           action |-> Dict([ j \in obs.neighbors |-> obs.last_actions_from_neighbors[j] ]) ]
    ELSE IF policy = "RaisesInRoundOne"
    THEN IF obs.round = 1
         THEN [ outcome |-> "RuntimeError", action |-> << >> ]
         ELSE [ outcome |-> "ok", action |-> Dict([ j \in obs.neighbors |-> "D" ]) ]
    ELSE [ outcome |-> "ok", action |-> Dict([ j \in obs.neighbors |-> "X" ]) ]

\* an entry of the record of the calls the engine has made
Event(call, round, agent, outcome) ==
    [ call |-> call, round |-> round, agent |-> agent, outcome |-> outcome ]

\* SimulationEngine(gameworld, agents) before run is called
EngineConstructed(agents, policy, n) ==
    engine = [ pc |-> "idle", n |-> n, agents |-> agents, policy |-> policy,
               round |-> 0, idx |-> 1, obs |-> NoObservation, actions |-> << >>,
               history |-> << >>, error |-> "", log |-> << >> ]

\* an engine that returns the ticks collected so far when a call raises
Swallow(e, error) == [ e EXCEPT !.pc = "returned", !.error = error ]

\* an exception raised inside run leaves run: nothing is returned
Propagate(e, error) == [ e EXCEPT !.pc = "raised", !.error = error ]

\* a round whose tick is not added to the history
EndRoundDroppingTick(e, tick) ==
    [ e EXCEPT !.round = @ + 1, !.idx = 1, !.actions = << >>,
               !.obs = NoObservation,
               !.pc = IF e.round + 1 = e.n THEN "returned" ELSE "observe" ]

\* the end of a round: the tick is appended and the next round starts, or
\* run returns the history
EndRound(e, tick) ==
    [ e EXCEPT !.history = Append(@, tick), !.round = @ + 1, !.idx = 1, !.actions = << >>,
               !.obs = NoObservation,
               !.pc = IF e.round + 1 = e.n THEN "returned" ELSE "observe" ]

\* an engine that hands every agent the observation of the first agent
ObservedAgentFirstOnly(e) == e.agents[1]

\* the agent whose observation is fetched next
ObservedAgent(e) == e.agents[e.idx]

\* an engine and its world before run(n)
EngineInit ==
    /\ \E g \in EngineGraphs : PDConstructed(g)
    /\ \E agents \in AgentLists, policy \in [ Nodes \cup { 3 } -> Policies ], n \in 0..MaxRounds :
         /\ policy[3] = "AlwaysC"
         /\ EngineConstructed(agents, policy, n)
    /\ ORConstructed(BaseConfig)
    /\ payoff_call = Unused
    /\ gini_call = Unused
    /\ or_history = << >>
    /\ collapse_call = Unused
    /\ coop_call = Unused
    /\ alias = Unused
    /\ MoreUnused

\* run(n) is called
EngineRun ==
    /\ engine.pc = "idle"
    /\ engine' = [ engine EXCEPT !.pc = IF engine.n = 0 THEN "returned" ELSE "observe" ]
    /\ UNCHANGED << or_vars, pd_vars >>
    /\ UNCHANGED << payoff_call, gini_call, or_history, collapse_call, coop_call, alias >>
    /\ UNCHANGED more_vars

\* the engine fetches the observation of the next agent
EngineObserve ==
    /\ engine.pc = "observe"
    /\ \E obs \in { GetObservation(graph, wealth, last_actions, t, ObservedAgent(engine)) } :
         LET logged == [ engine EXCEPT !.log = Append(@,
                             Event("get_observation", engine.round, engine.agents[engine.idx],
                                   obs.outcome)) ]
         IN  engine' = IF obs.outcome # "ok" THEN Propagate(logged, obs.outcome)
                       ELSE [ logged EXCEPT !.pc = "decide", !.obs = obs ]
    /\ UNCHANGED << or_vars, pd_vars >>
    /\ UNCHANGED << payoff_call, gini_call, or_history, collapse_call, coop_call, alias >>
    /\ UNCHANGED more_vars

\* the engine asks the agent for its decision and stores it under agent_id
EngineDecide ==
    /\ engine.pc = "decide"
    /\ LET id == engine.agents[engine.idx]
       IN  \E d \in { Decide(engine.policy[id], engine.obs) } :
             LET logged == [ engine EXCEPT !.log = Append(@,
                                 Event("decide", engine.round, id, d.outcome)) ]
             IN  engine' =
                   IF d.outcome # "ok" THEN Propagate(logged, d.outcome)
                   ELSE [ logged EXCEPT !.actions = (id :> d.action) @@ @,
                                        !.idx = @ + 1,
                                        !.pc = IF engine.idx = Len(engine.agents)
                                               THEN "settle" ELSE "observe" ]
    /\ UNCHANGED << or_vars, pd_vars >>
    /\ UNCHANGED << payoff_call, gini_call, or_history, collapse_call, coop_call, alias >>
    /\ UNCHANGED more_vars

\* the engine hands the joint action to the world's apply_actions
EngineSettle ==
    /\ engine.pc = "settle"
    /\ \E res \in { ApplyActions(graph, wealth, last_actions, t, engine.actions) } :
         LET logged == [ engine EXCEPT !.log = Append(@,
                             Event("apply_actions", engine.round, -1, res.outcome)) ]
         IN  /\ wealth' = res.wealth
             /\ last_actions' = res.last_actions
             /\ t' = res.t
             /\ engine' = IF res.outcome # "ok" THEN Propagate(logged, res.outcome)
                          ELSE EndRound(logged, res.tick)
    /\ UNCHANGED << graph, pd_tick, pd_outcome, pd_faults, pd_calls, pd_obs >>
    /\ UNCHANGED or_vars
    /\ UNCHANGED << payoff_call, gini_call, or_history, collapse_call, coop_call, alias >>
    /\ UNCHANGED more_vars

EngineNext == EngineRun \/ EngineObserve \/ EngineDecide \/ EngineSettle

SpecEngine == EngineInit /\ [][EngineNext]_vars

\* ------------------------------------------------------------------------
\* analytics.cooperation_rate_per_round
\* ------------------------------------------------------------------------
\* the graphs of the histories: a path and a graph without edges
CoopGraphs ==
    { (0 :> { 1 }) @@ (1 :> { 0, 2 }) @@ (2 :> { 1 }),
      (0 :> { }) @@ (1 :> { }) @@ (2 :> { }) }

\* the joint actions of the histories: every agent directs one action, "C"
\* or "D", at each of its neighbours
CoopActions(g) ==
    { [ i \in DOMAIN g |-> [ j \in g[i] |-> a[i] ] ] : a \in [ DOMAIN g -> { "C", "D" } ] }

RECURSIVE Settlements(_, _, _, _, _)
\* the ticks returned when the joint actions js are settled one after the
\* other on a world with the given fields
Settlements(g, w, last, round, js) ==
    IF js = << >> THEN << >>
    ELSE LET res == ApplyActions(g, w, last, round, Head(js))
         IN  << res.tick >> \o Settlements(g, res.wealth, res.last_actions, res.t, Tail(js))

RECURSIVE CountActions(_, _, _)
\* the loops over tick.actions: the number of values of the sub-mappings of
\* the agents ids that lie in the set counted
CountActions(actions, ids, counted) ==
    IF ids = {} THEN 0
    ELSE LET i == CHOOSE x \in ids : TRUE
         IN  Cardinality({ j \in DOMAIN actions[i] : actions[i][j] \in counted })
             + CountActions(actions, ids \ { i }, counted)

\* a rate that divides by the number of agents
CooperationRateOverAgents(tick) ==
    LET total == Cardinality(DOMAIN tick.actions)
        coop == CountActions(tick.actions, DOMAIN tick.actions, { "C" })
    IN  IF total # 0 THEN FDiv(F(coop), F(total)) ELSE 0

\* the rate appended for one tick: coop / total if total else 0.0
CooperationRate(tick) ==
    LET total == CountActions(tick.actions, DOMAIN tick.actions, ActionValues)
        coop == CountActions(tick.actions, DOMAIN tick.actions, { "C" })
    IN  IF total # 0 THEN FDiv(F(coop), F(total)) ELSE 0

\* analytics.cooperation_rate_per_round
CooperationRatePerRound(history) ==
    [ k \in 1..Len(history) |-> CooperationRate(history[k]) ]

\* a caller about to evaluate the rates of a history of settled rounds
CoopInit ==
    /\ \E g \in CoopGraphs :
         \E js \in UNION { [ 1..k -> CoopActions(g) ] : k \in 0..MaxRounds } :
             coop_call = [ outcome |-> "none",
                           history |-> Settlements(g, [ i \in DOMAIN g |-> 0 ], << >>, 0, js) ]
    /\ ORConstructed(BaseConfig)
    /\ PDConstructed(CHOOSE g \in Graphs : TRUE)
    /\ payoff_call = Unused
    /\ gini_call = Unused
    /\ or_history = << >>
    /\ collapse_call = Unused
    /\ engine = Unused
    /\ alias = Unused
    /\ MoreUnused

\* the call of cooperation_rate_per_round
CooperationRateCall ==
    /\ coop_call.outcome = "none"
    /\ coop_call' = [ outcome |-> "ok", history |-> coop_call.history,
                      result |-> CooperationRatePerRound(coop_call.history) ]
    /\ UNCHANGED << or_vars, pd_vars >>
    /\ UNCHANGED << payoff_call, gini_call, or_history, collapse_call, engine, alias >>
    /\ UNCHANGED more_vars

CoopNext == CooperationRateCall

SpecCoop == CoopInit /\ [][CoopNext]_vars

\* ------------------------------------------------------------------------
\* Gameworld.apply_actions and the objects it shares
\* ------------------------------------------------------------------------
\* The dicts of a run live on a heap: a sequence of dict contents, addressed
\* by position.  The world holds the addresses of its wealth and last_actions
\* dicts, the caller the addresses of the action mappings it built and of
\* the fields of the ticks it was handed.  An action mapping is an outer
\* dict whose values are the addresses of the agents' sub-mappings.

\* the graph of the world whose objects are followed
AliasGraph == (0 :> { 1 }) @@ (1 :> { 0 })

\* the joint actions the caller builds
AliasJoint ==
    { (0 :> (1 :> "C")) @@ (1 :> (0 :> "C")),
      (0 :> (1 :> "C")) @@ (1 :> (0 :> "D")) }

\* the other action
Flip(a) == IF a = "C" THEN "D" ELSE "C"

RECURSIVE CopyInner(_, _, _, _)
\* copies of the sub-mappings of an outer dict, in the order of its keys
CopyInner(h, outer, keys, done) ==
    IF keys = {} THEN [ heap |-> h, outer |-> done ]
    ELSE LET i == CHOOSE x \in keys : \A y \in keys : x <= y
         IN  CopyInner(Append(h, h[outer[i]]), outer, keys \ { i },
                       done @@ (i :> Len(h) + 1))

\* copy.deepcopy(actions): a new outer dict of new sub-mappings
DeepCopyOfActions(h, a) ==
    LET c == CopyInner(h, h[a], DOMAIN h[a], << >>)
    IN  [ heap |-> Append(c.heap, c.outer), ref |-> Len(c.heap) + 1 ]

\* the world's own wealth dict handed out
WealthShared(h, a) ==
    [ heap |-> h, ref |-> a ]

\* copy.deepcopy(self.wealth): a new dict of the same numbers
DeepCopyOfWealth(h, a) ==
    [ heap |-> Append(h, h[a]), ref |-> Len(h) + 1 ]

\* the value of the action mapping at address a
ActionsAt(h, a) == [ i \in DOMAIN h[a] |-> h[h[a][i]] ]

\* the world after __init__: a wealth dict of zeros and an empty last_actions
AliasConstructed ==
    alias = [ heap |-> << [ i \in DOMAIN AliasGraph |-> 0 ], << >> >>,
              wealth |-> 1, last_actions |-> 2, t |-> 0,
              inputs |-> << >>, ticks |-> << >>, mutations |-> 0 ]

AliasInit ==
    /\ AliasConstructed
    /\ ORConstructed(BaseConfig)
    /\ PDConstructed(CHOOSE g \in Graphs : TRUE)
    /\ payoff_call = Unused
    /\ gini_call = Unused
    /\ or_history = << >>
    /\ collapse_call = Unused
    /\ engine = Unused
    /\ coop_call = Unused
    /\ MoreUnused

\* everything but the objects stays as it is
AliasFrame ==
    /\ UNCHANGED << or_vars, pd_vars >>
    /\ UNCHANGED << payoff_call, gini_call, or_history, collapse_call, engine, coop_call >>
    /\ UNCHANGED more_vars

\* the caller builds an action mapping
AliasBuild ==
    /\ Len(alias.inputs) < MaxRounds
    /\ \E joint \in AliasJoint :
         LET h == alias.heap
             n == Len(h)
         IN  alias' = [ alias EXCEPT
                 !.heap = h \o << joint[0], joint[1], (0 :> n + 1) @@ (1 :> n + 2) >>,
                 !.inputs = Append(@, n + 3) ]
    /\ AliasFrame

\* Gameworld.apply_actions on one of the caller's action mappings
AliasSettle ==
    /\ alias.t < MaxRounds
    /\ \E a \in { alias.inputs[k] : k \in 1..Len(alias.inputs) } :
         \E res \in { ApplyActions(AliasGraph, alias.heap[alias.wealth],
                                   alias.heap[alias.last_actions], alias.t,
                                   ActionsAt(alias.heap, a)) } :
             /\ res.outcome = "ok"
             /\ LET \* self.wealth[i] += delta[i], in place
                    h1 == [ alias.heap EXCEPT ![alias.wealth] = res.wealth ]
                    \* new_last and delta are new dicts
                    h2 == h1 \o << res.last_actions, res.tick.delta_payoff >>
                    acts == DeepCopyOfActions(h2, a)
                    wlth == DeepCopyOfWealth(acts.heap, alias.wealth)
                IN  alias' = [ alias EXCEPT
                        !.heap = wlth.heap,
                        !.last_actions = Len(h1) + 1,
                        !.t = res.t,
                        !.ticks = Append(@, [ round |-> alias.t, actions |-> acts.ref,
                                              delta_payoff |-> Len(h1) + 2,
                                              wealth |-> wlth.ref ]) ]
    /\ AliasFrame

\* the outer dicts the caller holds: its action mappings and the ticks'
CallerOuter ==
    { alias.inputs[k] : k \in 1..Len(alias.inputs) }
        \cup { alias.ticks[k].actions : k \in 1..Len(alias.ticks) }

\* the sub-mappings the caller holds
CallerInner ==
    UNION { { alias.heap[a][i] : i \in DOMAIN alias.heap[a] } : a \in CallerOuter }

\* the dicts of numbers the caller holds: the ticks' wealth and delta_payoff
CallerNumbers ==
    { alias.ticks[k].wealth : k \in 1..Len(alias.ticks) }
        \cup { alias.ticks[k].delta_payoff : k \in 1..Len(alias.ticks) }

\* the caller replaces a sub-mapping of an action mapping it holds
MutateOuter ==
    /\ alias.mutations < MaxMutations
    /\ \E a \in CallerOuter : \E i \in DOMAIN alias.heap[a] :
         LET old == alias.heap[alias.heap[a][i]]
         IN  alias' = [ alias EXCEPT
                 !.heap = Append([ @ EXCEPT ![a][i] = Len(alias.heap) + 1 ],
                                 [ j \in DOMAIN old |-> Flip(old[j]) ]),
                 !.mutations = @ + 1 ]
    /\ AliasFrame

\* the caller changes an action in a sub-mapping it holds
MutateInner ==
    /\ alias.mutations < MaxMutations
    /\ \E a \in CallerInner : \E j \in DOMAIN alias.heap[a] :
         alias' = [ alias EXCEPT !.heap[a][j] = Flip(@), !.mutations = @ + 1 ]
    /\ AliasFrame

\* the caller changes a number in a tick's wealth or delta_payoff
MutateNumbers ==
    /\ alias.mutations < MaxMutations
    /\ \E a \in CallerNumbers : \E i \in DOMAIN alias.heap[a] :
         alias' = [ alias EXCEPT !.heap[a][i] = @ + 1, !.mutations = @ + 1 ]
    /\ AliasFrame

AliasNext == AliasBuild \/ AliasSettle \/ MutateOuter \/ MutateInner \/ MutateNumbers

SpecAlias == AliasInit /\ [][AliasNext]_vars

\* ------------------------------------------------------------------------
\* Open Resources runs with rule-based agents
\* ------------------------------------------------------------------------
\* the agent tuples of the runs
RunAgentIds == { << 0, 1 >>, << 0, 1, 2 >> }

\* configurations without regeneration
DepletionConfigs ==
    { [ BaseConfig EXCEPT !.agent_ids = ids, !.initial_resource = r, !.initial_wealth = 0,
                          !.max_harvest_per_step = h, !.regen_rate = 0, !.regen_mode = mode ] :
        ids \in RunAgentIds,
        r \in { 0, 38, F(1), F(3), F(7), F(20) },
        h \in { 13, 38, F(1), F(2), F(10) },
        mode \in { "logistic", "linear" } }

\* configurations with a low logistic regeneration rate and resource_cap =
\* initial_resource
LowRegenConfigs ==
    { [ BaseConfig EXCEPT !.agent_ids = ids, !.initial_resource = r, !.resource_cap = << r >>,
                          !.initial_wealth = w, !.max_harvest_per_step = h,
                          !.regen_rate = rate, !.regen_mode = "logistic" ] :
        ids \in RunAgentIds,
        r \in { 8, 38, F(1), F(3), F(7), F(20) },
        h \in { 13, F(1), F(2), F(10) },
        w \in { 0, F(10) },
        rate \in { 1, 2 } }

\* GreedyHarvesterAgent.decide
GreedyDecide(max_harvest_per_step, obs) ==
    [ harvest |-> max_harvest_per_step, contribute |-> 0 ]

\* CooperativeSustainableAgent.target_share and contrib_rate: 0.5 and the
\* float nearest to 0.05
TargetShare == Half
ContribRate == RN(5 * One, 100)

\* CooperativeSustainableAgent.decide
CooperativeDecide(max_harvest_per_step, obs) ==
    LET n_agents == IF Len(obs.known_agents) > 1 THEN Len(obs.known_agents) ELSE 1
        harvest_target == FMul(TargetShare, FDiv(obs.R, F(n_agents)))
    IN  [ harvest |-> FMin(max_harvest_per_step, FMax(0, harvest_target)),
          contribute |-> FMax(0, FMul(ContribRate, obs.self_wealth)) ]

\* _build_agents and one round of the engine: every agent decides on its
\* observation of the state before the round, then the world settles
AgentRound(cfg, st, agent_type) ==
    Settle(cfg, st, Dict([ a \in Range(cfg.agent_ids) |->
                            IF agent_type = "greedy"
                            THEN GreedyDecide(cfg.max_harvest_per_step, Observation(cfg, st, a))
                            ELSE CooperativeDecide(cfg.max_harvest_per_step,
                                                   Observation(cfg, st, a)) ]))

\* the two worlds a comparison starts from
RunsInit ==
    /\ \E cfg \in DepletionConfigs \cup LowRegenConfigs :
         runs = [ cfg |-> cfg, greedy |-> InitialState(cfg), coop |-> InitialState(cfg) ]
    /\ ORConstructed(BaseConfig)
    /\ PDConstructed(CHOOSE g \in Graphs : TRUE)
    /\ ExtUnused
    /\ llm = Unused
    /\ retry = Unused
    /\ bucket = Unused

\* a round of the run whose agents are all GreedyHarvesterAgent
GreedyRound ==
    /\ runs.greedy.t < MaxRounds
    /\ \E res \in { AgentRound(runs.cfg, runs.greedy, "greedy") } :
         /\ res.outcome = "ok"
         /\ runs' = [ runs EXCEPT !.greedy = res.state ]
    /\ UNCHANGED << or_vars, pd_vars, ext_vars >>
    /\ UNCHANGED << llm, retry, bucket >>

\* a round of the run whose agents are all CooperativeSustainableAgent
CoopRound ==
    /\ runs.coop.t < MaxRounds
    /\ \E res \in { AgentRound(runs.cfg, runs.coop, "coop") } :
         /\ res.outcome = "ok"
         /\ runs' = [ runs EXCEPT !.coop = res.state ]
    /\ UNCHANGED << or_vars, pd_vars, ext_vars >>
    /\ UNCHANGED << llm, retry, bucket >>

RunsNext == GreedyRound \/ CoopRound

SpecRuns == RunsInit /\ [][RunsNext]_vars

\* ------------------------------------------------------------------------
\* models: LLMRequest.stable_hash, DiskCache, CachedClient, ReplayClient
\* ------------------------------------------------------------------------
\* A Python number is a pair of its type and its value: 1 is << "int", 1 >>,
\* 1.0 is << "float", 1 >> and True is << "bool", 1 >>.  None is << >>.
Number(type, value) == << type, value >>

\* Python's ==: numbers compare by value, whatever their type
PyEq(x, y) == IF x = None \/ y = None THEN x = y ELSE x[2] = y[2]

\* json.dumps of a number or None
JsonText(x) ==
    IF x = None THEN "null"
    ELSE IF x[1] = "int" THEN ToString(x[2])
    ELSE IF x[1] = "float" THEN ToString(x[2]) \o ".0"
    ELSE IF x[2] = 1 THEN "true" ELSE "false"

\* the requests made: one conversation with temperatures 0.0, 0 and 1.0 and
\* metadata {}, {"seed": 1}, {"seed": 1.0} and {"seed": True}, and the same
\* conversation with another model
Requests ==
    { [ model |-> "m", messages |-> << [ role |-> "user", content |-> "x" ] >>,
        response_format |-> None, temperature |-> tmp, max_tokens |-> None,
        metadata |-> md ] :
        tmp \in { Number("float", 0), Number("int", 0), Number("float", 1) },
        md \in { << >> } \cup { [ seed |-> v ] : v \in { Number("int", 1), Number("float", 1),
                                                         Number("bool", 1) } } }
    \cup { [ model |-> "n", messages |-> << [ role |-> "user", content |-> "x" ] >>,
             response_format |-> None, temperature |-> Number("float", 0),
             max_tokens |-> None, metadata |-> << >> ] }

\* the dataclass __eq__ of LLMRequest: field by field with Python's ==
EqualFields(a, b) ==
    /\ a.model = b.model
    /\ a.messages = b.messages
    /\ PyEq(a.response_format, b.response_format)
    /\ PyEq(a.temperature, b.temperature)
    /\ PyEq(a.max_tokens, b.max_tokens)
    /\ DOMAIN a.metadata = DOMAIN b.metadata
    /\ \A k \in DOMAIN a.metadata : PyEq(a.metadata[k], b.metadata[k])

\* LLMRequest.stable_hash: the canonical JSON text of the payload (keys
\* sorted, so their order is immaterial), which sha256 maps one to one
StableHash(request) ==
    [ model |-> request.model,
      messages |-> request.messages,
      response_format |-> JsonText(request.response_format),
      temperature |-> JsonText(request.temperature),
      max_tokens |-> JsonText(request.max_tokens),
      metadata |-> [ k \in DOMAIN request.metadata |-> JsonText(request.metadata[k]) ] ]

\* the inner clients: MockClient, and a provider client whose responses
\* carry an LLMUsage and whose content differs from call to call
InnerClients == { "mock", "provider" }

\* inner.generate(request), as the n-th call of the inner client
InnerGenerate(inner, request, n) ==
    IF inner = "mock"
    THEN [ content |-> [ mock_id |-> StableHash(request), text |-> 0 ],
           model |-> "mock:" \o request.model,
           request_hash |-> StableHash(request),
           usage |-> None,
           raw |-> "mock" ]
    ELSE [ content |-> [ mock_id |-> StableHash(request), text |-> n ],
           model |-> request.model,
           request_hash |-> StableHash(request),
           usage |-> << "LLMUsage" >>,
           raw |-> "id" ]

\* json.dumps(value.__dict__): the text stored, or the TypeError raised for
\* a usage object
ToJson(response) ==
    IF response.usage # None THEN [ error |-> "TypeError" ]
    ELSE [ error |-> "",
           text |-> [ content |-> response.content, model |-> response.model,
                      request_hash |-> response.request_hash, usage |-> "null",
                      raw |-> response.raw ] ]

\* LLMResponse(**json.loads(text))
FromJson(text) ==
    [ content |-> text.content, model |-> text.model, request_hash |-> text.request_hash,
      usage |-> IF text.usage = "null" THEN None ELSE << "LLMUsage" >>,
      raw |-> text.raw ]

\* a get that answers with the response of any file
DiskCacheGetAny(files, key) ==
    IF DOMAIN files = {} THEN None
    ELSE << FromJson(files[CHOOSE k \in DOMAIN files : TRUE]) >>

\* DiskCache.get: << response >>, or None when the file does not exist
DiskCacheGet(files, key) ==
    IF key \notin DOMAIN files THEN None ELSE << FromJson(files[key]) >>

\* DiskCache.put: the files afterwards, or the error raised before writing
DiskCachePut(files, value) ==
    LET json == ToJson(value)
    IN  IF json.error # "" THEN [ error |-> json.error, files |-> files ]
        ELSE [ error |-> "", files |-> (value.request_hash :> json.text) @@ files ]

\* an empty cache directory, a CachedClient around an inner client and a
\* ReplayClient on the same cache
LLMInit ==
    /\ \E inner \in InnerClients :
         llm = [ inner |-> inner, files |-> << >>, inner_calls |-> 0, served |-> {},
                 calls |-> 0, last |-> [ client |-> "none" ] ]
    /\ ORConstructed(BaseConfig)
    /\ PDConstructed(CHOOSE g \in Graphs : TRUE)
    /\ ExtUnused
    /\ runs = Unused
    /\ retry = Unused
    /\ bucket = Unused

\* everything but the cache and its clients stays as it is
LLMFrame ==
    /\ UNCHANGED << or_vars, pd_vars, ext_vars >>
    /\ UNCHANGED << runs, retry, bucket >>

\* CachedClient.generate
CachedClientGenerate ==
    /\ llm.calls < MaxCalls
    /\ \E request \in Requests :
         LET key == StableHash(request)
             hit == DiskCacheGet(llm.files, key)
             out == InnerGenerate(llm.inner, request, llm.inner_calls + 1)
             put == DiskCachePut(llm.files, out)
         IN  IF hit # None
             THEN llm' = [ llm EXCEPT !.calls = @ + 1,
                               !.last = [ client |-> "cached", request |-> request,
                                          outcome |-> "ok", response |-> hit[1] ] ]
             ELSE IF put.error # ""
             THEN llm' = [ llm EXCEPT !.calls = @ + 1, !.inner_calls = @ + 1,
                               !.last = [ client |-> "cached", request |-> request,
                                          outcome |-> put.error ] ]
             ELSE llm' = [ llm EXCEPT !.calls = @ + 1, !.inner_calls = @ + 1,
                               !.files = put.files,
                               !.served = @ \cup { [ request |-> request, response |-> out ] },
                               !.last = [ client |-> "cached", request |-> request,
                                          outcome |-> "ok", response |-> out ] ]
    /\ LLMFrame

\* ReplayClient.generate
ReplayClientGenerate ==
    /\ llm.calls < MaxCalls
    /\ \E request \in Requests :
         LET hit == DiskCacheGet(llm.files, StableHash(request))
         IN  IF hit = None
             THEN llm' = [ llm EXCEPT !.calls = @ + 1,
                               !.last = [ client |-> "replay", request |-> request,
                                          outcome |-> "KeyError" ] ]
             ELSE llm' = [ llm EXCEPT !.calls = @ + 1,
                               !.last = [ client |-> "replay", request |-> request,
                                          outcome |-> "ok", response |-> hit[1] ] ]
    /\ LLMFrame

LLMNext == CachedClientGenerate \/ ReplayClientGenerate

SpecLLM == LLMInit /\ [][LLMNext]_vars

\* ------------------------------------------------------------------------
\* ResilientClient (models/toolkit.py): retry with exponential backoff
\* around an inner client, behind an optional rate limiter
\* ------------------------------------------------------------------------
\* the exception classes an inner client may raise: the LLMClientError
\* hierarchy of models/types.py and one class outside it
Errors ==
    { "LLMClientError", "LLMTimeoutError", "LLMRetryableError", "LLMRateLimitError",
      "LLMParseError", "LLMProviderError", "ValueError" }

\* the base class of each exception class
Base(cls) ==
    CASE cls = "LLMClientError" -> "Exception"
      [] cls = "LLMTimeoutError" -> "LLMClientError"
      [] cls = "LLMRetryableError" -> "LLMClientError"
      [] cls = "LLMRateLimitError" -> "LLMRetryableError"
      [] cls = "LLMParseError" -> "LLMClientError"
      [] cls = "LLMProviderError" -> "LLMClientError"
      [] cls = "ValueError" -> "Exception"
      [] OTHER -> "BaseException"

RECURSIVE IsInstance(_, _)
\* isinstance(e, cls) for an exception e of class err
IsInstance(err, cls) ==
    IF err = cls THEN TRUE
    ELSE IF err = "BaseException" THEN FALSE
    ELSE IsInstance(Base(err), cls)

\* a handler that catches every client error
CaughtAnyClientError(err) == IsInstance(err, "LLMClientError")

\* except (LLMRetryableError, LLMRateLimitError)
Caught(err) == IsInstance(err, "LLMRetryableError") \/ IsInstance(err, "LLMRateLimitError")

\* RetryPolicy, the two delays in units of a quarter of a second (the
\* defaults are max_attempts 3, initial_backoff_s 1 and max_backoff_s 8)
RetryPolicies ==
    { [ max_attempts |-> m, initial_backoff_s |-> b, max_backoff_s |-> 8 ] :
        m \in (-1) .. MaxAttempts, b \in { 1, 16 } }

\* a ResilientClient after construction, with or without a limiter
ResilientInit ==
    /\ \E policy \in RetryPolicies, limiter \in BOOLEAN :
         retry = [ retry_policy |-> policy, limiter |-> limiter, pc |-> "idle",
                   attempts |-> 0, backoff |-> 0, acquired |-> 0, inner |-> << >>,
                   slept |-> << >>, result |-> << >> ]
    /\ ORConstructed(BaseConfig)
    /\ PDConstructed(CHOOSE g \in Graphs : TRUE)
    /\ ExtUnused
    /\ runs = Unused
    /\ llm = Unused
    /\ bucket = Unused

\* everything but the client stays as it is
ResilientFrame ==
    /\ UNCHANGED << or_vars, pd_vars, ext_vars >>
    /\ UNCHANGED << runs, llm, bucket >>

\* generate is entered: backoff = initial_backoff_s, attempts = 0
ResilientGenerate ==
    /\ retry.pc = "idle"
    /\ retry' = [ retry EXCEPT !.pc = "loop",
                        !.backoff = retry.retry_policy.initial_backoff_s,
                        !.attempts = 0 ]
    /\ ResilientFrame

\* the head of the loop: attempts += 1, then limiter.acquire() returns
ResilientAcquire ==
    /\ retry.pc = "loop"
    /\ retry' = [ retry EXCEPT !.pc = "call", !.attempts = @ + 1,
                        !.acquired = IF retry.limiter THEN @ + 1 ELSE @ ]
    /\ ResilientFrame

\* inner.generate returns a response, which generate returns
ResilientInnerReturns ==
    /\ retry.pc = "call"
    /\ retry' = [ retry EXCEPT !.pc = "done", !.inner = Append(@, "ok"),
                        !.result = << "return", Len(retry.inner) + 1 >> ]
    /\ ResilientFrame

\* inner.generate raises: a caught error is raised again when attempts has
\* reached max_attempts, and otherwise slept on with the backoff doubled;
\* any other error leaves generate
ResilientInnerRaises ==
    /\ retry.pc = "call"
    /\ \E err \in Errors :
         IF Caught(err) /\ retry.attempts < retry.retry_policy.max_attempts
         THEN retry' = [ retry EXCEPT !.pc = "loop", !.inner = Append(@, err),
                               !.slept = Append(@, IF retry.backoff <= retry.retry_policy.max_backoff_s
                                                   THEN retry.backoff
                                                   ELSE retry.retry_policy.max_backoff_s),
                               !.backoff = 2 * @ ]
         ELSE retry' = [ retry EXCEPT !.pc = "done", !.inner = Append(@, err),
                               !.result = << "raise", err >> ]
    /\ ResilientFrame

ResilientNext ==
    \/ ResilientGenerate
    \/ ResilientAcquire
    \/ ResilientInnerReturns
    \/ ResilientInnerRaises

SpecResilient == ResilientInit /\ [][ResilientNext]_vars

\* the limiter and the inner client return or raise, and time.sleep ends
FairSpecResilient == ResilientInit /\ [][ResilientNext]_vars /\ WF_vars(ResilientNext)

\* ------------------------------------------------------------------------
\* TokenBucketRateLimiter (models/toolkit.py) shared by several threads
\* ------------------------------------------------------------------------
Threads == 1 .. MaxThreads

\* the granularity of the monotonic clock: half a second
Tick == Half

\* the limiters explored: rate_per_second > 0 and a whole burst
Limiters ==
    { [ rate |-> rate, burst |-> burst ] :
        rate \in { RN(One, 3), One, F(2) }, burst \in 0 .. MaxBurst }

\* now - self.last when the clock has advanced by since ticks
Elapsed(since) == RN(since * Tick, 1)

\* the ticks that time.sleep(wait) lasts at least
SleepTicks(wait) == (wait + Tick - 1) \div Tick

\* TokenBucketRateLimiter.__init__; no thread has called acquire
BucketInit ==
    /\ \E l \in Limiters :
         bucket = [ rate |-> l.rate, capacity |-> F(l.burst), tokens |-> F(l.burst),
                    since |-> 0,
                    pc |-> [ th \in Threads |-> "idle" ],
                    left |-> [ th \in Threads |-> 0 ],
                    calls |-> [ th \in Threads |-> 0 ],
                    returned |-> 0, taken |-> 0 ]
    /\ ORConstructed(BaseConfig)
    /\ PDConstructed(CHOOSE g \in Graphs : TRUE)
    /\ ExtUnused
    /\ runs = Unused
    /\ llm = Unused
    /\ retry = Unused

\* everything but the limiter stays as it is
BucketFrame ==
    /\ UNCHANGED << or_vars, pd_vars, ext_vars >>
    /\ UNCHANGED << runs, llm, retry >>

\* thread th calls acquire and comes to the head of the loop
BucketCall(th) ==
    /\ bucket.pc[th] = "idle"
    /\ bucket.calls[th] < MaxAcquires
    /\ bucket' = [ bucket EXCEPT !.pc[th] = "lock", !.calls[th] = @ + 1 ]
    /\ BucketFrame

\* thread th runs the body of "with self._lock": refill for the elapsed
\* time, then take a token and return, or leave with the time to wait
BucketLocked(th) ==
    /\ bucket.pc[th] = "lock"
    /\ \E elapsed \in { Elapsed(bucket.since) } :
       \E gained \in { FMul(elapsed, bucket.rate) } :
       \E sum \in { FAdd(bucket.tokens, gained) } :
       \E tokens \in { FMin(bucket.capacity, sum) } :
       \E short \in { FSub(One, tokens) } :
       \E wait \in { FDiv(short, bucket.rate) } :
         IF tokens >= One
         THEN bucket' = [ bucket EXCEPT !.tokens = FSub(tokens, One), !.since = 0,
                                 !.pc[th] = "idle", !.returned = @ + 1, !.taken = @ + 1 ]
         ELSE bucket' = [ bucket EXCEPT !.tokens = tokens, !.since = 0,
                                 !.pc[th] = "sleep", !.left[th] = SleepTicks(wait) ]
    /\ BucketFrame

\* time.sleep(wait) of thread th ends
BucketWake(th) ==
    /\ bucket.pc[th] = "sleep"
    /\ bucket.left[th] = 0
    /\ bucket' = [ bucket EXCEPT !.pc[th] = "lock" ]
    /\ BucketFrame

\* the monotonic clock advances by one tick (the elapsed time is counted up
\* to the point where it refills the whole bucket)
BucketTimePasses ==
    /\ bucket' = [ bucket EXCEPT
                     !.since = IF FMul(Elapsed(@), bucket.rate) >= bucket.capacity
                               THEN @ ELSE @ + 1,
                     !.left = [ th \in Threads |-> IF @[th] > 0 THEN @[th] - 1 ELSE 0 ] ]
    /\ BucketFrame

BucketNext ==
    \/ \E th \in Threads : BucketCall(th)
    \/ \E th \in Threads : BucketLocked(th)
    \/ \E th \in Threads : BucketWake(th)
    \/ BucketTimePasses

SpecBucket == BucketInit /\ [][BucketNext]_vars

\* every thread inside acquire keeps running and the clock keeps advancing
BucketFairness ==
    /\ WF_vars(BucketTimePasses)
    /\ \A th \in Threads : WF_vars(BucketLocked(th) \/ BucketWake(th))

FairSpecBucket == BucketInit /\ [][BucketNext]_vars /\ BucketFairness

\* ------------------------------------------------------------------------
\* Properties of Gameworld
\* ------------------------------------------------------------------------
RECURSIVE OwnPayoffs(_, _, _)
\* what agent k earns when PayoffMatrix.payoff is evaluated once for each of
\* the undirected edges that join k to the neighbours js
OwnPayoffs(actions, k, js) ==
    IF js = {} THEN 0
    ELSE LET j == CHOOSE x \in js : TRUE
         IN  Payoff(actions[k][j], actions[j][k])[1] + OwnPayoffs(actions, k, js \ { j })

\* C1: in every settled round on an undirected graph, each agent's
\* delta_payoff is the sum of its own payoff component over its edges, each
\* edge evaluated once: none is skipped and none is credited twice
C1_EachEdgeCreditedOnce ==
    (pd_outcome = "ok" /\ Symmetric(graph)) =>
        \A k \in DOMAIN graph :
            pd_tick.delta_payoff[k] = OwnPayoffs(pd_tick.actions, k, graph[k])

\* a settled round in which an agent with two edges earned a payoff on both
\* and the two ends of an edge chose different actions
C1_Witness ==
    /\ pd_outcome = "ok"
    /\ Symmetric(graph)
    /\ \E k \in DOMAIN graph :
         /\ Cardinality(graph[k]) = 2
         /\ \A j \in graph[k] : Payoff(pd_tick.actions[k][j], pd_tick.actions[j][k])[1] > 0
         /\ \E j \in graph[k] : pd_tick.actions[k][j] # pd_tick.actions[j][k]

\* C2: a call whose argument lacks an agent, lacks a neighbour or carries a
\* value outside {C, D} fails, and a failed call leaves wealth, last_actions
\* and t as they were; a call that does not fail settles the whole round
C2_RejectedRoundChangesNothing ==
    [][ pd_calls' # pd_calls =>
          /\ pd_faults' # {} => pd_outcome' # "ok"
          /\ pd_outcome' # "ok" =>
                wealth' = wealth /\ last_actions' = last_actions /\ t' = t
          /\ pd_outcome' = "ok" =>
                /\ t' = t + 1
                /\ \A k \in DOMAIN graph : wealth'[k] = wealth[k] + pd_tick'.delta_payoff[k]
                /\ \A i \in DOMAIN graph : \A j \in graph[i] :
                       last_actions'[<< i, j >>] = pd_tick'.actions[i][j] ]_vars

\* a call rejected for a bad argument after a round that changed the world
C2_Witness ==
    /\ pd_outcome = "ValueError"
    /\ pd_faults # {}
    /\ t > 0
    /\ \E k \in DOMAIN graph : wealth[k] > 0
    /\ last_actions # << >>

\* ------------------------------------------------------------------------
\* Properties of OpenResourcesGameWorld
\* ------------------------------------------------------------------------
\* the most recent call settled a step and or_tick is its tick
Settled == or_outcome = "ok"

Ids == Range(config.agent_ids)

RECURSIVE ExactSum(_, _)
\* the sum of the values of d over the agents as, without any rounding
ExactSum(d, as) ==
    IF as = {} THEN 0
    ELSE LET a == CHOOSE x \in as : TRUE IN d[a] + ExactSum(d, as \ { a })

\* the capacity of a configuration: resource_cap, or max(initial_resource, 1)
CapOf(cfg) ==
    IF cfg.resource_cap = None
    THEN IF cfg.initial_resource >= One THEN cfg.initial_resource ELSE One
    ELSE cfg.resource_cap[1]

\* x limited to the interval [lo, hi]
Limit(x, lo, hi) == IF x < lo THEN lo ELSE IF x > hi THEN hi ELSE x

\* the requests of the step exceeded a positive stock
Rationed ==
    /\ Settled
    /\ or_tick.R_before > 0
    /\ SumSeq(or_tick.harvest_requested, config.agent_ids) > or_tick.R_before

\* C3: when the clamped requests exceed the stock, the actual harvests sum to
\* exactly R_before, the scale is R_before / H_req, every actual harvest is
\* the request times that scale, and R_mid is 0
C3_RationingExhaustsStock ==
    Rationed =>
        /\ SumSeq(or_tick.harvest_actual, config.agent_ids) = or_tick.R_before
        /\ or_tick.info.allocation_scale = FDiv(or_tick.R_before, or_tick.info.H_req)
        /\ \A a \in Ids : or_tick.harvest_actual[a] =
                              FMul(or_tick.harvest_requested[a], or_tick.info.allocation_scale)
        /\ or_tick.info.R_mid = 0

\* C4 as stated: whenever the clamped requests sum to at most R_before, the
\* allocation scale is 1.0 and every agent harvests what it requested
C4_ScaleOneWhenStockSuffices ==
    (Settled /\ SumSeq(or_tick.harvest_requested, config.agent_ids) <= or_tick.R_before) =>
        /\ or_tick.info.allocation_scale = One
        /\ or_tick.harvest_actual = or_tick.harvest_requested

\* C4 amended: whenever the clamped requests sum to at most R_before every
\* agent harvests what it requested, and the allocation scale is 1.0 unless
\* the requests sum to zero, when it is 0.0
C4_FullHarvestWhenStockSuffices ==
    (Settled /\ SumSeq(or_tick.harvest_requested, config.agent_ids) <= or_tick.R_before) =>
        /\ or_tick.harvest_actual = or_tick.harvest_requested
        /\ or_tick.info.allocation_scale =
               IF SumSeq(or_tick.harvest_requested, config.agent_ids) = 0 THEN 0 ELSE One

\* a step in which both agents requested a positive harvest and the stock
\* covered the requests
C4_Witness ==
    /\ Settled
    /\ \A a \in Ids : or_tick.harvest_requested[a] > 0
    /\ SumSeq(or_tick.harvest_requested, config.agent_ids) <= or_tick.R_before
    /\ or_tick.info.allocation_scale = One

\* C5: each recorded harvest request is the requested harvest limited to
\* [0, max_harvest_per_step], each recorded contribution is the requested
\* contribution limited to [0, the agent's wealth before the step], and a
\* clamp flag is set exactly when the recorded value differs from the request
C5_RequestsAreClamped ==
    [][ (or_calls' # or_calls /\ or_outcome' = "ok") =>
          \A a \in Ids :
              /\ or_tick'.harvest_requested[a] =
                     Limit(or_actions'[a].harvest, 0, config.max_harvest_per_step)
              /\ or_tick'.contribute[a] =
                     Limit(or_actions'[a].contribute, 0, state.wealth[a])
              /\ or_tick'.clamped[a].harvest =
                     (or_tick'.harvest_requested[a] # or_actions'[a].harvest)
              /\ or_tick'.clamped[a].contribute =
                     (or_tick'.contribute[a] # or_actions'[a].contribute) ]_vars

\* a second step in which one agent's negative requests were raised to 0, the
\* other's oversized requests were cut to max_harvest_per_step and to its
\* wealth, which was no longer the initial wealth
C5_Witness ==
    /\ Settled
    /\ or_tick.t = 1
    /\ \E a \in Ids :
         /\ or_actions[a].harvest < 0 /\ or_tick.harvest_requested[a] = 0
         /\ or_actions[a].contribute < 0 /\ or_tick.contribute[a] = 0
         /\ or_tick.clamped[a].harvest /\ or_tick.clamped[a].contribute
    /\ \E a \in Ids :
         /\ or_actions[a].harvest > config.max_harvest_per_step
         /\ or_tick.harvest_requested[a] = config.max_harvest_per_step
         /\ or_actions[a].contribute > or_tick.contribute[a]
         /\ or_tick.contribute[a] > 0
         /\ or_tick.contribute[a] # config.initial_wealth
         /\ or_tick.clamped[a].harvest /\ or_tick.clamped[a].contribute

\* C6: after every settled step the stock lies in [0, cap]
C6_StockAfterStepWithinCap ==
    Settled =>
        /\ 0 <= or_tick.R_after /\ or_tick.R_after <= CapOf(config)
        /\ state.R = or_tick.R_after

\* a step whose regeneration overshot the capacity and was cut back to it
C6_Witness ==
    /\ Settled
    /\ config.regen_mode = "linear"
    /\ config.regen_rate > One
    /\ or_tick.info.R_mid < CapOf(config)
    /\ or_tick.R_after = CapOf(config)

\* C7: in every reachable state, from construction on, the stock is neither
\* negative nor above the capacity
C7_StockNeverOutsideCap == 0 <= state.R /\ state.R <= CapOf(config)

\* C8: no agent harvests more than it requested, and together the agents
\* harvest no more than the stock before the harvest
C8_HarvestWithinRequestAndStock ==
    Settled =>
        /\ \A a \in Ids : or_tick.harvest_actual[a] <= or_tick.harvest_requested[a]
        /\ ExactSum(or_tick.harvest_actual, Ids) <= or_tick.R_before

\* C9: the pool after a step is the pool before plus the contributions minus
\* the rewards, the rewards never exceed the pool after contributions, and the
\* pool is never negative
C9_PoolNeverNegative ==
    /\ state.P >= 0
    /\ Settled =>
         /\ or_tick.P_after =
                FSub(FAdd(or_tick.P_before, SumSeq(or_tick.contribute, config.agent_ids)),
                     SumSeq(or_tick.reward, config.agent_ids))
         /\ ExactSum(or_tick.reward, Ids) <=
                FAdd(or_tick.P_before, SumSeq(or_tick.contribute, config.agent_ids))

\* C10: the rewards of a step total min(pool after contribution,
\* governance_reward_rate * total contributions) when the rate, that pool and
\* the contributions are all positive; otherwise every reward is 0, and with
\* a zero rate the pool grows by exactly the contributions
C10_RewardsTotalTheBudget ==
    Settled =>
        LET total_contrib == SumSeq(or_tick.contribute, config.agent_ids)
            p_after_contrib == FAdd(or_tick.P_before, total_contrib)
        IN  IF config.governance_reward_rate > 0 /\ p_after_contrib > 0 /\ total_contrib > 0
            THEN SumSeq(or_tick.reward, config.agent_ids) =
                     FMin(p_after_contrib, FMul(config.governance_reward_rate, total_contrib))
            ELSE /\ \A a \in Ids : or_tick.reward[a] = 0
                 /\ config.governance_reward_rate = 0 => or_tick.P_after = p_after_contrib

\* the reward branch of the step was taken: the rate, the pool after the
\* contributions and the total contribution were all positive
RewardPaid ==
    /\ Settled
    /\ config.governance_reward_rate > 0
    /\ SumSeq(or_tick.contribute, config.agent_ids) > 0
    /\ FAdd(or_tick.P_before, SumSeq(or_tick.contribute, config.agent_ids)) > 0

\* the reward budget of the step
Budget ==
    FMin(FAdd(or_tick.P_before, SumSeq(or_tick.contribute, config.agent_ids)),
         FMul(config.governance_reward_rate, SumSeq(or_tick.contribute, config.agent_ids)))

\* C11: when a budget B is paid, "proportional" gives each agent
\* B * contribute / total, "equal" gives B / n to each of the n agents with a
\* positive contribution, an agent that contributed nothing gets nothing, and
\* the rewards sum to B
C11_RewardsFollowTheMode ==
    RewardPaid =>
        LET total == SumSeq(or_tick.contribute, config.agent_ids)
            eligible == { a \in Ids : or_tick.contribute[a] > 0 }
        IN  /\ config.reward_mode = "proportional" =>
                  \A a \in Ids : or_tick.reward[a] =
                                     FMul(Budget, FDiv(or_tick.contribute[a], total))
            /\ config.reward_mode = "equal" =>
                  \A a \in Ids : or_tick.reward[a] =
                      IF a \in eligible THEN FDiv(Budget, F(Cardinality(eligible))) ELSE 0
            /\ \A a \in Ids : or_tick.contribute[a] = 0 => or_tick.reward[a] = 0
            /\ SumSeq(or_tick.reward, config.agent_ids) = Budget

\* C12: R_mid is max(0, R_before - sum of the actual harvests) and R_after is
\* R_mid plus the regeneration of the configured mode, limited to [0, cap]; so
\* with a zero rate R_after is R_mid, and in linear mode with a positive rate
\* and R_mid below the capacity R_after is above R_mid
C12_RegenerationFormula ==
    Settled =>
        LET cap == CapOf(config)
            r_mid == or_tick.info.R_mid
            delta == IF config.regen_mode = "logistic"
                     THEN FMul(FMul(config.regen_rate, r_mid), FSub(One, FDiv(r_mid, cap)))
                     ELSE FMul(config.regen_rate, FSub(cap, r_mid))
        IN  /\ r_mid = FMax(0, FSub(or_tick.R_before,
                                    SumSeq(or_tick.harvest_actual, config.agent_ids)))
            /\ or_tick.R_after = Limit(FAdd(r_mid, delta), 0, cap)
            /\ config.regen_rate = 0 => or_tick.R_after = r_mid
            /\ (config.regen_mode = "linear" /\ config.regen_rate > 0 /\ r_mid < cap) =>
                   or_tick.R_after > r_mid

\* C13: a call that fails leaves t, R, P and wealth exactly as they were, and
\* a call whose argument lacks a configured agent fails
C13_FailedStepChangesNothing ==
    [][ or_calls' # or_calls =>
          /\ or_outcome' # "ok" => state' = state
          /\ (\E a \in Ids : a \notin DOMAIN or_actions') => or_outcome' = "ValueError" ]_vars

\* a call that lacked an agent and failed on a world that an earlier step had
\* changed
C13_Witness ==
    /\ or_outcome = "ValueError"
    /\ \E a \in Ids : a \notin DOMAIN or_actions
    /\ state.t = 1
    /\ state.R # config.initial_resource
    /\ \E a \in Ids : state.wealth[a] # config.initial_wealth

\* C14: on a world whose reward_mode is neither "proportional" nor "equal"
\* every apply_actions call fails with the configuration error
C14_UnsupportedRewardModeAlwaysFails ==
    (or_calls > 0 /\ config.reward_mode \notin { "proportional", "equal" }) =>
        or_outcome = "ValueError"

\* C15: a successful call advances t by one; its tick carries the t, R and P
\* from before the call and the R, P and wealth that the world holds after
\* it; t starts at 0, so successive ticks are numbered 0, 1, ... and each
\* starts from the stock and the pool at which the previous one ended
C15_StepCommitsAndAdvances ==
    [][ /\ or_tick = NoTick => state.t = 0
        /\ (or_calls' # or_calls /\ or_outcome' = "ok") =>
              /\ state'.t = state.t + 1
              /\ or_tick'.t = state.t
              /\ or_tick'.R_before = state.R
              /\ or_tick'.P_before = state.P
              /\ or_tick'.R_after = state'.R
              /\ or_tick'.P_after = state'.P
              /\ or_tick'.wealth = state'.wealth
              /\ or_tick # NoTick =>
                    /\ or_tick'.t = or_tick.t + 1
                    /\ or_tick'.R_before = or_tick.R_after
                    /\ or_tick'.P_before = or_tick.P_after ]_vars

\* a second settled step that started from a stock, a pool and a wealth that
\* the first step had changed
C15_Witness ==
    /\ Settled
    /\ or_tick.t = 1
    /\ state.t = 2
    /\ or_tick.R_before # config.initial_resource
    /\ or_tick.P_before # config.initial_pool
    /\ or_tick.P_after # or_tick.P_before
    /\ \E a \in Ids : or_tick.wealth[a] # config.initial_wealth

\* C16: get_observation fails with the unknown-agent error for an id outside
\* the configured agents; otherwise it returns the current t, R, P, the
\* agent's current wealth and the configured agent ids; either way the state
\* is left as it was
C16_ObservationReportsState ==
    [][ or_obs' # or_obs =>
          /\ state' = state
          /\ IF or_obs'.agent_id \notin Ids
             THEN or_obs'.outcome = "ValueError"
             ELSE /\ or_obs'.outcome = "ok"
                  /\ or_obs'.self_id = or_obs'.agent_id
                  /\ or_obs'.t = state.t
                  /\ or_obs'.R = state.R
                  /\ or_obs'.P = state.P
                  /\ or_obs'.self_wealth = state.wealth[or_obs'.agent_id]
                  /\ or_obs'.known_agents = config.agent_ids ]_vars

\* an observation taken after a step, of an agent whose wealth the step changed
C16_Witness ==
    /\ or_obs.outcome = "ok"
    /\ or_obs.t = 1
    /\ state.t = 1
    /\ or_obs.self_wealth # config.initial_wealth
    /\ or_obs.R # config.initial_resource

\* C17: when the clamped requests sum to zero every actual harvest is 0, the
\* allocation scale is 0, and R_mid is R_before
C17_NothingRequestedNothingHarvested ==
    (Settled /\ SumSeq(or_tick.harvest_requested, config.agent_ids) = 0) =>
        /\ \A a \in Ids : or_tick.harvest_actual[a] = 0
        /\ or_tick.info.allocation_scale = 0
        /\ or_tick.info.R_mid = or_tick.R_before

\* a step on a positive stock in which nothing was requested and regeneration
\* alone changed the stock
C17_Witness ==
    /\ Settled
    /\ or_tick.info.H_req = 0
    /\ or_tick.R_before > 0
    /\ or_tick.info.R_mid = or_tick.R_before
    /\ or_tick.R_after # or_tick.R_before

\* ------------------------------------------------------------------------
\* Further properties of Gameworld
\* ------------------------------------------------------------------------
\* every agent of the graph supplies valid actions for exactly its neighbours
ExactCover(g, actions) ==
    /\ DOMAIN actions = DOMAIN g
    /\ \A i \in DOMAIN g :
         /\ DOMAIN actions[i] = g[i]
         /\ \A j \in g[i] : actions[i][j] \in { "C", "D" }

\* C18: on a graph in which some i lists j while j does not list i, a call in
\* which every agent supplies valid actions for exactly its own neighbours
\* does not settle
C18_AsymmetricGraphNeverSettles ==
    (pd_outcome = "ok" /\ ~Symmetric(graph)) => ~ExactCover(graph, pd_tick.actions)

\* C19: t is 0 until the first settlement; a successful apply_actions sets
\* the round of its tick to t and adds one to t; a failed apply_actions and a
\* get_observation leave t as it is
C19_RoundCounterCountsSettlements ==
    [][ /\ pd_tick = NoRound => t = 0
        /\ IF pd_calls' # pd_calls /\ pd_outcome' = "ok"
           THEN t' = t + 1 /\ pd_tick'.round = t
           ELSE t' = t /\ pd_tick' = pd_tick ]_vars

\* a failed call after the first settlement, with an observation taken since
\* that settlement: the counter still stands at 1
C19_Witness ==
    /\ pd_calls = 2
    /\ pd_outcome # "ok"
    /\ pd_tick # NoRound
    /\ pd_tick.round = 0
    /\ t = 1
    /\ pd_obs.outcome = "ok"
    /\ pd_obs.round = 1

\* C20: get_observation changes nothing and reports, for each neighbour j of
\* i, "C" before any settlement and otherwise the action that j directed at i
\* in the most recently settled round
C20_ObservationShowsLastRound ==
    [][ (pd_obs' # pd_obs /\ pd_obs'.outcome = "ok") =>
          /\ UNCHANGED << graph, wealth, last_actions, t >>
          /\ \A j \in graph[pd_obs'.self_id] :
                 pd_obs'.last_actions_from_neighbors[j] =
                     IF pd_tick = NoRound THEN "C"
                     ELSE IF pd_obs'.self_id \in DOMAIN pd_tick.actions[j]
                          THEN pd_tick.actions[j][pd_obs'.self_id]
                          ELSE "nothing" ]_vars

\* C21: every wealth is 0 until the first settlement; each settlement adds
\* the tick's delta_payoff to every wealth and the tick's wealth snapshot is
\* the wealth after that addition; nothing else changes a wealth, so each
\* wealth is the sum of the deltas of the ticks so far, and with the default
\* payoffs no wealth ever decreases
C21_WealthAccumulates ==
    [][ /\ pd_tick = NoRound => \A k \in DOMAIN graph : wealth[k] = 0
        /\ IF pd_calls' # pd_calls /\ pd_outcome' = "ok"
           THEN /\ \A k \in DOMAIN graph :
                     /\ wealth'[k] = wealth[k] + pd_tick'.delta_payoff[k]
                     /\ wealth'[k] >= wealth[k]
                /\ pd_tick'.wealth = wealth'
           ELSE wealth' = wealth ]_vars

\* a second settlement that added a positive payoff to a wealth that the first
\* settlement had already raised
C21_Witness ==
    /\ pd_outcome = "ok"
    /\ pd_tick.round = 1
    /\ \E k \in DOMAIN graph :
         /\ pd_tick.delta_payoff[k] > 0
         /\ wealth[k] > pd_tick.delta_payoff[k]
         /\ pd_tick.wealth[k] = wealth[k]

\* ------------------------------------------------------------------------
\* Properties of PayoffMatrix.payoff and of the analytics functions
\* ------------------------------------------------------------------------
\* C23: payoff gives (R, R) for (C, C), (P, P) for (D, D), (T, S) for (D, C)
\* and (S, T) for (C, D); it raises the ValueError exactly when an argument is
\* outside {C, D}; exchanging the arguments exchanges the payoffs; the call
\* changes nothing else
C23_PayoffTable ==
    [][ payoff_call' # payoff_call =>
          LET a_i == payoff_call'.a_i
              a_j == payoff_call'.a_j
              res == payoff_call'.result
          IN  /\ (a_i \notin { "C", "D" } \/ a_j \notin { "C", "D" }) <=>
                     payoff_call'.outcome = "ValueError"
              /\ payoff_call'.outcome \in { "ok", "ValueError" }
              /\ (a_i = "C" /\ a_j = "C") => res = << PayoffMatrix.R, PayoffMatrix.R >>
              /\ (a_i = "D" /\ a_j = "D") => res = << PayoffMatrix.P, PayoffMatrix.P >>
              /\ (a_i = "D" /\ a_j = "C") => res = << PayoffMatrix.T, PayoffMatrix.S >>
              /\ (a_i = "C" /\ a_j = "D") => res = << PayoffMatrix.S, PayoffMatrix.T >>
              /\ payoff_call'.outcome = "ok" =>
                     Payoff(a_j, a_i) = << res[2], res[1] >>
              /\ UNCHANGED << or_vars, pd_vars >> ]_vars

\* a call on a defector meeting a cooperator, paid the temptation and the
\* sucker payoffs
C23_Witness ==
    /\ payoff_call.outcome = "ok"
    /\ payoff_call.a_i = "D"
    /\ payoff_call.a_j = "C"
    /\ payoff_call.result = << 5, 0 >>

\* every value of the list is the same
Uniform(values) == \A i \in DOMAIN values : values[i] = values[1]

\* one entry of the list is positive and all the others are zero
OneHoldsAll(values) ==
    \E i \in DOMAIN values :
        values[i] > 0 /\ \A j \in DOMAIN values \ { i } : values[j] = 0

\* C30: gini of a list of non-negative values is in [0, 1]; it is 0.0 for the
\* empty list, for a list whose total is zero and for a uniform list; it is
\* (n - 1) / n for a list of n values of which one holds everything
C30_GiniProperties ==
    gini_call.outcome = "ok" =>
        LET values == gini_call.values
            n == Len(values)
        IN  /\ 0 <= gini_call.result /\ gini_call.result <= One
            /\ (values = << >> \/ Total(values) = 0 \/ Uniform(values)) =>
                   gini_call.result = 0
            /\ OneHoldsAll(values) => gini_call.result = FDiv(F(n - 1), F(n))

\* the positions of the flagged ticks of a sequence
Flagged(ticks) == { i \in DOMAIN ticks : ticks[i].info.collapsed }

\* C28: the collapse flag of every tick is true exactly when its R_after is
\* at most collapse_threshold, and collapse_time gives the t of the first
\* flagged tick of its argument, or None when no tick is flagged
C28_CollapseFlagAndTime ==
    /\ \A i \in DOMAIN or_history :
         or_history[i].info.collapsed <=> (or_history[i].R_after <= config.collapse_threshold)
    /\ collapse_call.outcome = "ok" =>
         LET ticks == collapse_call.ticks
         IN  IF Flagged(ticks) = {} THEN collapse_call.result = None
             ELSE \E i \in Flagged(ticks) :
                      /\ \A j \in Flagged(ticks) : i <= j
                      /\ collapse_call.result = << ticks[i].t >>

\* a run whose first tick stayed above a positive threshold and whose second
\* tick is flagged with stock left, for which collapse_time gave 1
C28_Witness ==
    /\ collapse_call.outcome = "ok"
    /\ collapse_call.ticks = or_history
    /\ Len(or_history) = 2
    /\ config.collapse_threshold > 0
    /\ ~or_history[1].info.collapsed
    /\ or_history[2].info.collapsed
    /\ or_history[2].R_after > 0
    /\ collapse_call.result = << 1 >>

\* ------------------------------------------------------------------------
\* Properties of SimulationEngine
\* ------------------------------------------------------------------------
RECURSIVE AgentCalls(_, _, _)
\* the calls of one round for the first m agents of the list, none failing
AgentCalls(agents, m, k) ==
    IF m = 0 THEN << >>
    ELSE AgentCalls(agents, m - 1, k)
         \o << Event("get_observation", k, agents[m], "ok"),
               Event("decide", k, agents[m], "ok") >>

RECURSIVE RoundCalls(_, _)
\* the calls of the first n rounds, none failing: in each round one
\* observation and one decision per agent in list order, then one settlement
RoundCalls(agents, n) ==
    IF n = 0 THEN << >>
    ELSE RoundCalls(agents, n - 1)
         \o AgentCalls(agents, Len(agents), n - 1)
         \o << Event("apply_actions", n - 1, -1, "ok") >>

\* C24: when run(n) returns, the history has n ticks, tick k is the tick of
\* round k, and in every round the engine called decide once per agent in the
\* order of the agent list and apply_actions once
C24_RunReturnsOneTickPerRound ==
    engine.pc = "returned" =>
        /\ Len(engine.history) = engine.n
        /\ \A k \in 1..engine.n : engine.history[k].round = k - 1
        /\ engine.log = RoundCalls(engine.agents, engine.n)

\* a run of two rounds that returned, on agents listed out of id order
C24_Witness ==
    /\ engine.pc = "returned"
    /\ engine.n = 2
    /\ engine.agents = << 2, 0, 1 >>
    /\ Len(engine.history) = 2
    /\ engine.history[2].round = 1
    /\ \E k \in DOMAIN wealth : wealth[k] > 0

\* C25: the world changes only in the settlement step that ends a round, and
\* the observation an agent decides on in round k shows the world as round
\* k - 1 left it: the round index k, the agent's wealth after round k - 1 and
\* the actions its neighbours directed at it in round k - 1 ("C" in round 0)
C25_AgentsSeeThePreviousRound ==
    [][ /\ << wealth, last_actions, t >>' # << wealth, last_actions, t >> =>
              engine.pc = "settle" /\ engine'.round = engine.round + 1
        /\ engine.pc = "decide" =>
              LET i == engine.agents[engine.idx]
                  k == engine.round
              IN  /\ engine.obs.self_id = i
                  /\ engine.obs.round = k
                  /\ t = k
                  /\ engine.obs.self_wealth =
                         IF k = 0 THEN 0 ELSE engine.history[k].wealth[i]
                  /\ \A j \in graph[i] :
                         engine.obs.last_actions_from_neighbors[j] =
                             IF k = 0 THEN "C" ELSE engine.history[k].actions[j][i] ]_vars

\* an agent about to decide in round 1 that is shown a defection of round 0
\* and the wealth it earned in round 0
C25_Witness ==
    /\ engine.pc = "decide"
    /\ engine.round = 1
    /\ engine.idx > 1
    /\ engine.obs.self_wealth > 0
    /\ \E j \in engine.obs.neighbors : engine.obs.last_actions_from_neighbors[j] = "D"

\* C26: when a call of get_observation, decide or apply_actions raises, run
\* ends with that error: the failing call is the last call the engine makes
\* (no retry, no later round), run returns no history, and the world is as
\* the last settled round left it
C26_ErrorsEndTheRun ==
    LET failed == { i \in DOMAIN engine.log : engine.log[i].outcome # "ok" }
    IN  /\ failed # {} =>
              /\ engine.pc = "raised"
              /\ failed = { Len(engine.log) }
              /\ engine.error = engine.log[Len(engine.log)].outcome
              /\ engine.log[Len(engine.log)].round = engine.round
              /\ Len(engine.history) = engine.round
              /\ t = engine.round
              /\ engine.round > 0 => wealth = engine.history[engine.round].wealth
        /\ engine.pc = "raised" => failed # {}

\* a run that raised in its second round, from an agent's decide, after one
\* round had been settled
C26_Witness ==
    /\ engine.pc = "raised"
    /\ engine.round = 1
    /\ Len(engine.history) = 1
    /\ engine.error = "RuntimeError"
    /\ engine.log[Len(engine.log)].call = "decide"

\* ------------------------------------------------------------------------
\* Properties of cooperation_rate_per_round
\* ------------------------------------------------------------------------
\* the directed actions of a tick: the pairs (i, j) for which i's sub-mapping
\* has an entry for j
Directed(tick) ==
    { e \in (DOMAIN tick.actions) \X Nodes : e[2] \in DOMAIN tick.actions[e[1]] }

\* C29: there is one rate per tick; it is the number of directed "C" actions
\* of the round divided by the number of its directed actions; it lies in
\* [0, 1], is 1.0 when every action is "C", 0.0 when every action is "D" and
\* 0.0 when the round has no directed action
C29_CooperationRates ==
    coop_call.outcome = "ok" =>
        /\ Len(coop_call.result) = Len(coop_call.history)
        /\ \A k \in 1..Len(coop_call.history) :
             LET tick == coop_call.history[k]
                 all == Directed(tick)
                 c == { e \in all : tick.actions[e[1]][e[2]] = "C" }
                 rate == coop_call.result[k]
             IN  /\ 0 <= rate /\ rate <= One
                 /\ all # {} => rate = RN(Cardinality(c) * One, Cardinality(all))
                 /\ (all # {} /\ c = all) => rate = One
                 /\ c = {} => rate = 0

\* the rates of a history of two rounds: one in which everybody cooperated
\* and one in which one of four directed actions was "C"
C29_Witness ==
    /\ coop_call.outcome = "ok"
    /\ Len(coop_call.history) = 2
    /\ coop_call.result[1] = One
    /\ coop_call.result[2] = One \div 4

\* ------------------------------------------------------------------------
\* Properties of the objects of Gameworld.apply_actions
\* ------------------------------------------------------------------------
\* the objects reachable from an action mapping
ObjectsOfActions(al, a) == { a } \cup { al.heap[a][i] : i \in DOMAIN al.heap[a] }

\* the objects reachable from the k-th tick
ObjectsOfTick(al, k) ==
    ObjectsOfActions(al, al.ticks[k].actions)
        \cup { al.ticks[k].delta_payoff, al.ticks[k].wealth }

\* the objects reachable from the world and from the caller's action mappings
ObjectsOfWorldAndInputs(al) ==
    { al.wealth, al.last_actions }
        \cup UNION { ObjectsOfActions(al, al.inputs[k]) : k \in 1..Len(al.inputs) }

\* the contents of the k-th tick
TickContents(al, k) ==
    [ round |-> al.ticks[k].round,
      actions |-> ActionsAt(al.heap, al.ticks[k].actions),
      delta_payoff |-> al.heap[al.ticks[k].delta_payoff],
      wealth |-> al.heap[al.ticks[k].wealth] ]

\* C22: a tick shares no object with the world, with the caller's action
\* mappings or with another tick; a mutation by the caller of a tick or of
\* an action mapping leaves the world's wealth and last_actions as they
\* were, and a settlement leaves the contents of every earlier tick as they
\* were
C22_TicksShareNothing ==
    [][ /\ \A k \in 1..Len(alias'.ticks) :
             /\ ObjectsOfTick(alias', k) \cap ObjectsOfWorldAndInputs(alias') = {}
             /\ \A m \in 1..Len(alias'.ticks) :
                  m # k => ObjectsOfTick(alias', k) \cap ObjectsOfTick(alias', m) = {}
        /\ alias'.t = alias.t =>
             /\ alias'.heap[alias'.wealth] = alias.heap[alias.wealth]
             /\ alias'.heap[alias'.last_actions] = alias.heap[alias.last_actions]
        /\ alias'.t # alias.t =>
             \A k \in 1..Len(alias.ticks) : TickContents(alias', k) = TickContents(alias, k)
      ]_vars

\* the caller has changed the wealth of the first tick, and a second round
\* was settled
C22_Witness ==
    /\ alias # Unused
    /\ alias.t = 2
    /\ alias.mutations = 1
    /\ alias.heap[alias.ticks[1].wealth][0] = alias.heap[alias.ticks[1].delta_payoff][0] + 1
    /\ alias.heap[alias.wealth][0]
         = alias.heap[alias.ticks[1].delta_payoff][0] + alias.heap[alias.ticks[2].delta_payoff][0]

\* ------------------------------------------------------------------------
\* Properties of the wealth and the stock of OpenResourcesGameWorld
\* ------------------------------------------------------------------------
\* C36: in a world built with non-negative initial wealth, stock and pool,
\* no agent's wealth is ever negative, whatever harvest and contribution the
\* agents request and whatever the reward mode
C36_WealthNeverNegative ==
    (config.initial_wealth >= 0 /\ config.initial_resource >= 0 /\ config.initial_pool >= 0) =>
        \A a \in Ids : state.wealth[a] >= 0

\* a step paid a reward in mode "equal" after one agent asked for a negative
\* harvest and contribution and the other contributed all it had
C36_Witness ==
    /\ Settled
    /\ RewardPaid
    /\ config.reward_mode = "equal"
    /\ \E a \in Ids : or_actions[a].contribute < 0 /\ or_actions[a].harvest < 0
    /\ \E a \in Ids : or_actions[a].contribute >= config.initial_wealth /\ state.wealth[a] >= 0
    /\ or_calls = 1

\* C37: in every settled step the agents' wealth plus the pool grows by
\* exactly the total actual harvest H_act, and H_act is R_before - R_mid
C37_ValueIsConserved ==
    [][ or_outcome' = "ok" =>
          /\ ExactSum(state'.wealth, Ids) + state'.P
               = ExactSum(state.wealth, Ids) + state.P + or_tick'.info.H_act
          /\ or_tick'.info.H_act = or_tick'.R_before - or_tick'.info.R_mid ]_vars

\* C38: in logistic mode a step whose clamped requests exceed the stock ends
\* with R_after = 0, and a step that starts with R = 0 ends with R = 0 and,
\* when collapse_threshold >= 0, with a tick flagged collapsed
C38_DepletedStockStaysDepleted ==
    (Settled /\ config.regen_mode = "logistic") =>
        /\ or_tick.info.H_req > or_tick.R_before => or_tick.R_after = 0
        /\ or_tick.R_before = 0 =>
             /\ or_tick.R_after = 0
             /\ config.collapse_threshold >= 0 => or_tick.info.collapsed

\* ------------------------------------------------------------------------
\* Properties of the runs with rule-based agents
\* ------------------------------------------------------------------------
\* C31: with a low logistic regeneration rate and resource_cap =
\* initial_resource, after the same number of rounds the stock of the greedy
\* run is never higher than the stock of the cooperative run
C31_GreedyDepletesAtLeastAsMuch ==
    (runs.cfg \in LowRegenConfigs /\ runs.greedy.t = runs.coop.t) =>
        runs.greedy.R <= runs.coop.R

\* the number of rounds after which greedy agents must have emptied the
\* stock: ceil(initial_resource / (n_agents * max_harvest_per_step))
RoundsToEmpty(cfg) ==
    LET d == Len(cfg.agent_ids) * cfg.max_harvest_per_step
    IN  (cfg.initial_resource + d - 1) \div d

\* C39: with regen_rate = 0 and greedy agents the stock never increases, is
\* 0 after ceil(initial_resource / (n_agents * max_harvest_per_step)) rounds
\* and stays 0 from then on
C39_GreedyAgentsEmptyTheStock ==
    [][ runs.cfg \in DepletionConfigs =>
          /\ runs'.greedy.R <= runs.greedy.R
          /\ runs.greedy.R = 0 => runs'.greedy.R = 0
          /\ runs'.greedy.t >= RoundsToEmpty(runs.cfg) => runs'.greedy.R = 0 ]_vars

\* ------------------------------------------------------------------------
\* Properties of the cache and its clients
\* ------------------------------------------------------------------------
\* the requests the CachedClient has served from its inner client
Served == { sv.request : sv \in llm.served }

\* C32: requests with equal fields have equal stable_hash; once the
\* CachedClient has served a request from its inner client, a later
\* CachedClient.generate for a request with the same stable_hash returns the
\* stored response without calling the inner client, and the response is
\* in the cache under the key request.stable_hash()
C32_CacheKeysAreStable ==
    [][ llm'.last.client = "cached" =>
          /\ \A a \in Served : EqualFields(a, llm'.last.request) =>
                 StableHash(a) = StableHash(llm'.last.request)
          /\ \A sv \in llm.served : StableHash(sv.request) = StableHash(llm'.last.request) =>
                 /\ llm'.last.outcome = "ok"
                 /\ llm'.last.response = sv.response
                 /\ llm'.inner_calls = llm.inner_calls
          /\ \A sv \in llm'.served :
                 DiskCacheGet(llm'.files, StableHash(sv.request)) = << sv.response >> ]_vars

\* C33: ReplayClient.generate calls no provider; for a request that a
\* CachedClient on the same cache has served it returns a response with the
\* content originally generated; for a request without a cache entry it
\* raises KeyError; it leaves the cache unchanged
C33_ReplayReadsTheCacheOnly ==
    [][ llm'.last.client = "replay" =>
          /\ llm'.inner_calls = llm.inner_calls
          /\ llm'.files = llm.files
          /\ \A sv \in llm.served : sv.request = llm'.last.request =>
                 /\ llm'.last.outcome = "ok"
                 /\ llm'.last.response.content = sv.response.content
          /\ StableHash(llm'.last.request) \notin DOMAIN llm.files =>
                 llm'.last.outcome = "KeyError" ]_vars

\* a replay of a served request after two requests were served, and no
\* further call of the inner client
C33_Witness ==
    /\ llm # Unused
    /\ llm.calls = 3
    /\ llm.inner_calls = 2
    /\ llm.last.client = "replay"
    /\ llm.last.outcome = "ok"
    /\ llm.last.request \in Served

\* how a finished call of ResilientClient.generate relates to what the
\* inner client did, and a running call to what has happened so far
ResilientOutcome ==
    LET n == Len(retry.inner)
        most == IF retry.retry_policy.max_attempts > 1
                THEN retry.retry_policy.max_attempts ELSE 1
        retryable(e) == e \in { "LLMRetryableError", "LLMRateLimitError" }
    IN  /\ n <= most
        /\ retry.limiter => retry.acquired = (IF retry.pc = "call" THEN n + 1 ELSE n)
        /\ ~retry.limiter => retry.acquired = 0
        /\ \A i \in 1 .. n - 1 : retryable(retry.inner[i])
        /\ retry.pc \in { "loop", "call" } =>
             /\ \A i \in 1 .. n : retryable(retry.inner[i])
             /\ n < most
        /\ retry.pc = "done" =>
             /\ n >= 1
             /\ retry.inner[n] = "ok" <=> retry.result = << "return", n >>
             /\ retry.inner[n] # "ok" => retry.result = << "raise", retry.inner[n] >>
             /\ retryable(retry.inner[n]) => n = most

\* C34: ResilientClient.generate calls the inner client between once and
\* max(1, max_attempts) times with one limiter acquire before each call,
\* returns the first response, goes on only after an LLMRetryableError or
\* LLMRateLimitError, lets any other error out at once, raises the
\* retryable error again after max_attempts failures, and always ends when
\* the limiter and the inner client do.
C34_RetriesAreBoundedAndEnd == [] ResilientOutcome /\ <> (retry.pc = "done")

\* a call that failed twice with retryable errors, slept the capped
\* backoff, and returned the third response behind a limiter
C34_Witness ==
    /\ retry.pc = "done"
    /\ retry.limiter
    /\ retry.acquired = 3
    /\ retry.inner = << "LLMRateLimitError", "LLMRetryableError", "ok" >>
    /\ retry.slept = << 8, 8 >>
    /\ retry.result = << "return", 3 >>

\* min(self.capacity, self.tokens + elapsed * self.rate) of a limiter b
Refilled(b) == FMin(b.capacity, FAdd(b.tokens, FMul(Elapsed(b.since), b.rate)))

\* the token count is within [0, capacity] and every token taken went to
\* one returned acquire
BucketTokensInRange ==
    /\ 0 <= bucket.tokens
    /\ bucket.tokens <= bucket.capacity
    /\ bucket.returned = bucket.taken

\* a step in which an acquire returns takes one whole token from at least
\* one, and no other thread moves in it
BucketTakesOneToken ==
    \A th \in Threads :
        bucket.pc[th] = "lock" /\ bucket'.pc[th] = "idle" =>
            /\ Refilled(bucket) >= One
            /\ bucket'.tokens = Refilled(bucket) - One
            /\ bucket'.returned = bucket.returned + 1
            /\ \A u \in Threads \ { th } : bucket'.pc[u] = bucket.pc[u]

\* C35: under any interleaving of the threads' acquire calls the token
\* count stays within [0, capacity], each returning acquire takes exactly
\* one whole token that no other call takes, and (rate > 0) every acquire
\* eventually returns.
C35_AcquireIsSafeAndReturns ==
    /\ [] BucketTokensInRange
    /\ [][BucketTakesOneToken]_vars
    /\ \A th \in Threads : (bucket.pc[th] # "idle") ~> (bucket.pc[th] = "idle")

====
